---- MODULE Spec2Model ----
(***************************************************************************)
(* A model of the agent tool-calling runtime of toy-agent:                 *)
(*   - the stream assembler   (ChatRunner.consumeChatStream),              *)
(*   - the request composer   (ChatRunner.buildRequestMessages),           *)
(*   - the tool dispatcher    (ToolSystem.handleToolCalls),                *)
(*   - the tool loop and the interactive session (ChatRunner.run),         *)
(*   - the tool registry      (ToolSystem.register),                       *)
(*   - the runtime configuration (RuntimeConfigService.buildSnapshot).     *)
(*                                                                         *)
(* A JavaScript string is a sequence of one-symbol strings; a value that   *)
(* may be null/undefined is tagged: Null, Str(s) or Num(n).                *)
(***************************************************************************)
EXTENDS Integers, Sequences, FiniteSets, TLC

VARIABLES
    \* ---- stream assembler (consumeChatStream) ----
    phase,          \* "streaming" | "done" | "failed"
    message,        \* the assistant message under assembly
    toolCallMap,    \* Map<number, ToolCallLike>, in insertion order
    sent,           \* what the completion service has sent so far
    nChunks,        \* number of chunks consumed
    \* ---- tool dispatcher (ToolSystem.handleToolCalls) ----
    dpc,            \* "idle" | "call" | "running" | "done" | "raised"
    toolCalls,      \* the batch being dispatched
    callIdx,        \* position of the for-of loop in the batch
    results,        \* ToolResultMessageLike[] built so far
    running,        \* positions in the batch whose handler has been started
                    \* and has not settled yet
    outcomes,       \* per request handled: what its handler did
    \* ---- composer, tool loop and session (ChatRunner) ----
    history,        \* conversationHistory
    requestMessages,\* the messages of the last request built
    rpc,            \* where ChatRunner.run is: "prompt" | "loop" |
                    \* "stream" | "tools"
    round,          \* the loop variable of runToolLoop
    loopMsg,        \* msg of runToolLoop: the turn assembled in the current
                    \* round (NotYet before)
    requests,       \* requests issued by the current run of runToolLoop
    loopExit,       \* how the last runToolLoop ended: "none" | "running" |
                    \* "returned" | "exhausted" | "threw"
    returned,       \* what runToolLoop returned (NotYet before it returns)
    nInputs,        \* user messages entered so far
    \* ---- the context shared with the tool handlers ----
    notebook,       \* Notebook: the notes in insertion order
    \* ---- tool registry (ToolSystem.register) ----
    tools,          \* Map<string, ToolDefinition>, in insertion order
    regLast,        \* the last register call and how it ended
    nRegs,          \* register calls made so far
    \* ---- runtime configuration (RuntimeConfigService) ----
    stored,         \* the stored configuration (profiles, activeProfileId)
    env,            \* process.env, the TOY_* variables
    snapshot,       \* the snapshot built from them (NotBuilt before)
    \* ---- the prompt (ChatRunner.run) ----
    lastInput,      \* the line last read at the prompt (Null before)
    \* ---- command registry (CommandSystem.register) ----
    commandsInOrder,\* the definitions registered, in help order
    lookup,         \* Map<string, CommandDefinition>: names and aliases
    cmdLast,        \* the last register call and how it ended
    \* ---- notebook store (Notebook) ----
    notesByKey,     \* Map<string, Note>
    insertionOrder, \* string[]: the keys in insertion order
    nbLast,         \* the last call on the notebook and how it ended
    \* ---- configuration service (RuntimeConfigService, ConfigStore) ----
    file,           \* the configuration file of ConfigStore
    listeners,      \* Set<SnapshotListener>, in insertion order
    llm,            \* ChatRunner.llm: the runtime requests are issued with
    svcLast         \* the last call on the service and what it did

streamVars == <<phase, message, toolCallMap, sent, nChunks>>
dispatchVars == <<dpc, toolCalls, callIdx, results, running, outcomes>>
runnerVars == <<history, requestMessages, rpc, round, loopMsg, requests,
          loopExit,
               returned, nInputs>>
registryVars == <<tools, regLast, nRegs>>
configVars == <<stored, env, snapshot>>
promptVars == <<lastInput>>
commandVars == <<commandsInOrder, lookup, cmdLast>>
storeVars == <<notesByKey, insertionOrder, nbLast>>
serviceVars == <<file, listeners, llm, svcLast>>
vars == <<phase, message, toolCallMap, sent, nChunks,
          dpc, toolCalls, callIdx, results, running, outcomes,
          history, requestMessages, rpc, round, loopMsg, requests,
          loopExit,
          returned, nInputs, notebook,
          tools, regLast, nRegs, stored, env, snapshot,
          lastInput,
          commandsInOrder, lookup, cmdLast,
          notesByKey, insertionOrder, nbLast,
          file, listeners, llm, svcLast>>

(***************************************************************************)
(* Bounds of the model.                                                    *)
(***************************************************************************)
MaxChunks == 3
MaxBatch == 2
MaxHistory == 4
MaxInputs == 2
MaxToolRounds == 2
MaxRegisters == 3
MaxAliases == 2
MaxProfiles == 2

(***************************************************************************)
(* JavaScript values.                                                      *)
(***************************************************************************)
Null == [t |-> "null"]
Str(s) == [t |-> "str", v |-> s]
Num(n) == [t |-> "num", v |-> n]
IsStr(x) == x.t = "str"
IsNum(x) == x.t = "num"
\* JS truthiness of an optional string: present and non-empty
Truthy(x) == IsStr(x) /\ x.v # <<>>
\* the same for a string kept whole (a role, a type)
TruthyWord(x) == IsStr(x) /\ x.v # ""

RECURSIVE Concat(_)
Concat(frags) ==
    IF frags = <<>> THEN <<>> ELSE Head(frags) \o Concat(Tail(frags))

(***************************************************************************)
(* Tool registry and dispatcher.  A tool output is a sequence of text      *)
(* pieces; the literal prefix "Error: " of the dispatcher's messages is    *)
(* one piece.                                                              *)
(***************************************************************************)
\* the names registered at start-up (two of them stand for all)
RegisteredTools == {<<"ls">>, <<"add_note">>}

\* JSON.parse on the argument texts of the model: a number, null, an object
\* with no member or with one member; anything else is a SyntaxError
JsonMember == "\"path\":\"src\""
NoteMember == "\"key\":\"plan\",\"title\":\"t\",\"content\":\"c\""
\* JSON.parse taking the empty text for an empty object
JsonParseEmptyAsObject(text) ==
    IF text = <<>> \/ text = <<"{", "}">>
        THEN [threw |-> FALSE, value |-> [kind |-> "object", members |-> {}]]
    ELSE IF text = <<"1">> THEN [threw |-> FALSE, value |-> [kind |-> "number"]]
    ELSE IF text = <<"null">> THEN [threw |-> FALSE, value |-> [kind |-> "null"]]
    ELSE IF text = <<"{", JsonMember, "}">>
        THEN [threw |-> FALSE,
              value |-> [kind |-> "object", members |-> {JsonMember}]]
    ELSE IF text = <<"{", NoteMember, "}">>
        THEN [threw |-> FALSE,
              value |-> [kind |-> "object", members |-> {NoteMember}]]
    ELSE [threw |-> TRUE, error |-> [kind |-> "Error", message |-> <<"SyntaxError">>]]
JsonParse(text) ==
    IF text = <<"1">> THEN [threw |-> FALSE, value |-> [kind |-> "number"]]
    ELSE IF text = <<"null">> THEN [threw |-> FALSE, value |-> [kind |-> "null"]]
    ELSE IF text = <<"{", "}">>
        THEN [threw |-> FALSE, value |-> [kind |-> "object", members |-> {}]]
    ELSE IF text = <<"{", JsonMember, "}">>
        THEN [threw |-> FALSE,
              value |-> [kind |-> "object", members |-> {JsonMember}]]
    ELSE IF text = <<"{", NoteMember, "}">>
        THEN [threw |-> FALSE,
              value |-> [kind |-> "object", members |-> {NoteMember}]]
    ELSE [threw |-> TRUE, error |-> [kind |-> "Error", message |-> <<"SyntaxError">>]]

\* err instanceof Error ? err.message : String(err)
ErrorText(err) == IF err.kind = "Error" THEN err.message ELSE err.value

\* safeJsonParse without its try/catch: the SyntaxError escapes
safeJsonParseNoCatch(value) ==
    LET r == JsonParse(value)
    IN IF r.threw THEN [threw |-> TRUE, ok |-> FALSE, error |-> ErrorText(r.error)]
       ELSE [threw |-> FALSE, ok |-> TRUE, data |-> r.value]

\* safeJsonParse that turns a parse failure into an empty arguments object
safeJsonParseLenient(value) ==
    LET r == JsonParse(value)
    IN IF r.threw
       THEN [threw |-> FALSE, ok |-> TRUE,
             data |-> [kind |-> "object", members |-> {}]]
       ELSE [threw |-> FALSE, ok |-> TRUE, data |-> r.value]

\* safeJsonParse (the argument text is call.function?.arguments ?? "{}")
safeJsonParse(value) ==
    LET r == JsonParse(value)
    IN IF r.threw THEN [threw |-> FALSE, ok |-> FALSE, error |-> ErrorText(r.error)]
       ELSE [threw |-> FALSE, ok |-> TRUE, data |-> r.value]

\* what a handler may do: resolve with a text or reject with a thrown value
\* (adds: the notes the handler has added to the notebook of the context)
HandlerOutcomes ==
    {[threw |-> FALSE, value |-> <<"src/a.ts">>, adds |-> <<>>],
     [threw |-> FALSE, value |-> <<>>, adds |-> <<>>],
     [threw |-> TRUE, error |-> [kind |-> "Error", message |-> <<"ENOENT">>],
      adds |-> <<>>],
     [threw |-> TRUE, error |-> [kind |-> "string", value |-> <<"oops">>],
      adds |-> <<>>]}
NotInvoked ==
    [threw |-> FALSE, value |-> <<"(handler not invoked)">>, adds |-> <<>>]

\* Notebook.has
NotebookHas(nb, key) == \E i \in DOMAIN nb : nb[i].key = key

\* Notebook.toPrettyJSON: the notes in insertion order, as pieces
RECURSIVE NotesJson(_)
NotesJson(nb) ==
    IF nb = <<>> THEN <<>>
    ELSE <<"{ key: ">> \o nb[1].key \o <<", title: ">> \o nb[1].title
            \o <<", content: ">> \o nb[1].content \o <<" }">>
            \o NotesJson(Tail(nb))
toPrettyJSON(nb) ==
    IF nb = <<>> THEN <<"[]">> ELSE <<"[">> \o NotesJson(nb) \o <<"]">>

\* the handler of add_note on the notebook nb
addNoteTool(nb, args) ==
    LET key == IF NoteMember \in args.members THEN <<"plan">> ELSE <<>>
    IN IF key = <<>>
       THEN [threw |-> FALSE, value |-> <<"Error: ", "'key' is required">>,
             adds |-> <<>>]
       ELSE IF NotebookHas(nb, key)
       THEN [threw |-> FALSE,
             value |-> <<"Error: ", "Key '">> \o key
                          \o <<"' already exists. Use update_note to modify.">>,
             adds |-> <<>>]
       ELSE [threw |-> FALSE,
             value |-> <<"Success: Note '">> \o key \o <<"' added.">>,
             adds |-> <<[key |-> key, title |-> <<"t">>, content |-> <<"c">>]>>]

\* execute without its try/catch: the handler's rejection escapes
executeNoCatch(toolName, outcome) ==
    IF toolName \notin RegisteredTools
    THEN [threw |-> FALSE,
          value |-> <<"Error: ", "unknown tool '">> \o toolName \o <<"'">>]
    ELSE outcome

\* ToolSystem.execute, given what the handler does when it is invoked
execute(toolName, outcome) ==
    IF toolName \notin RegisteredTools
    THEN [threw |-> FALSE,
          value |-> <<"Error: ", "unknown tool '">> \o toolName \o <<"'">>]
    ELSE IF outcome.threw
    THEN [threw |-> FALSE,
          value |-> <<"Error: ", "tool '">> \o toolName \o <<"' failed - ">>
                        \o ErrorText(outcome.error)]
    ELSE outcome

\* parsed.ok && typeof parsed.data === "object" && parsed.data !== null ? parsed.data : {}
ArgsOf(parsed) ==
    IF parsed.ok /\ parsed.data.kind = "object" THEN parsed.data
    ELSE [kind |-> "object", members |-> {}]

\* the message of a parse failure
ParseErrorOutput(name, parseError) ==
    <<"Error: ", "invalid JSON arguments for tool '">> \o name \o <<"': ">>
        \o parseError

\* results.push with the results put in front
PushResultFront(res, call, output) ==
    <<[role |-> "tool", tool_call_id |-> call.id, content |-> output]>> \o res

\* results.push({ role: "tool", tool_call_id: call.id, content: output })
PushResult(res, call, output) ==
    Append(res, [role |-> "tool", tool_call_id |-> call.id, content |-> output])

\* the loop after starting the handler of request i without awaiting it
AfterStartNoAwait(i) == [pc |-> "call", idx |-> i + 1]

\* `await this.execute(...)`: the loop is suspended at request i until the
\* handler started for it settles
AfterStart(i) == [pc |-> "running", idx |-> i]

DispatchIdle ==
    /\ dpc = "idle"
    /\ toolCalls = <<>>
    /\ callIdx = 1
    /\ results = <<>>
    /\ running = {}
    /\ outcomes = <<>>

\* handleToolCalls is entered with a batch
DispatchEnter(calls) ==
    /\ dpc' = "call"
    /\ toolCalls' = calls
    /\ callIdx' = 1
    /\ results' = <<>>
    /\ running' = {}
    /\ outcomes' = <<>>

\* One iteration of the for-of loop up to the await: the arguments are
\* parsed; a parse failure or an unknown tool gives the result at once,
\* otherwise the handler is started.
DispatchCall ==
    /\ dpc = "call"
    /\ callIdx <= Len(toolCalls)
    /\ LET call == toolCalls[callIdx]
           name == call.function.name
           parsed == safeJsonParse(call.function.arguments)
       IN IF parsed.threw
          THEN /\ dpc' = "raised"
               /\ UNCHANGED <<callIdx, results, running, outcomes>>
          ELSE IF ~parsed.ok
          THEN /\ results' = PushResult(results, call,
                                        ParseErrorOutput(name, parsed.error))
               /\ outcomes' = Append(outcomes, NotInvoked)
               /\ callIdx' = callIdx + 1
               /\ UNCHANGED <<dpc, running>>
          ELSE IF name \notin RegisteredTools
          THEN /\ results' = PushResult(results, call,
                                        execute(name, NotInvoked).value)
               /\ outcomes' = Append(outcomes, NotInvoked)
               /\ callIdx' = callIdx + 1
               /\ UNCHANGED <<dpc, running>>
          ELSE /\ running' = running \cup {callIdx}
               /\ dpc' = AfterStart(callIdx).pc
               /\ callIdx' = AfterStart(callIdx).idx
               /\ UNCHANGED <<results, outcomes>>
    /\ UNCHANGED <<toolCalls, notebook>>

\* The handler started by DispatchCall settles; execute turns what it did
\* into the output and the result is pushed.
DispatchSettle(Outcomes) ==
    /\ dpc = "running"
    /\ \E outcome \in Outcomes :
        LET call == toolCalls[callIdx]
            done == execute(call.function.name, outcome)
        IN IF done.threw
           THEN /\ dpc' = "raised"
                /\ notebook' = notebook \o outcome.adds
                /\ UNCHANGED <<callIdx, results, running, outcomes>>
           ELSE /\ dpc' = "call"
                /\ results' = PushResult(results, call, done.value)
                /\ running' = running \ {callIdx}
                /\ outcomes' = Append(outcomes, outcome)
                /\ notebook' = notebook \o outcome.adds
                /\ callIdx' = callIdx + 1
    /\ UNCHANGED toolCalls

\* the loop is over: handleToolCalls returns results
DispatchReturn ==
    /\ dpc = "call"
    /\ callIdx > Len(toolCalls)
    /\ dpc' = "done"
    /\ UNCHANGED <<toolCalls, callIdx, results, running, outcomes, notebook>>

\* the batches handed to the dispatcher
ArgTexts == {<<>>, <<"{">>, <<"{", "}">>, <<"{", JsonMember, "}">>, <<"1">>}
CallIds == {<<"call_1">>, <<"call_2">>}
CallNames == RegisteredTools \cup {<<"nope">>}
Calls ==
    {[id |-> id, type |-> "function",
      function |-> [name |-> n, arguments |-> a]] :
        id \in CallIds, n \in {<<"ls">>, <<"nope">>}, a \in ArgTexts}

RECURSIVE SeqsUpTo(_, _)
SeqsUpTo(S, n) ==
    IF n = 0 THEN {<<>>}
    ELSE LET shorter == SeqsUpTo(S, n - 1)
         IN shorter \cup {Append(q, x) : q \in {r \in shorter : Len(r) = n - 1}, x \in S}

(***************************************************************************)
(* Stream assembler.                                                       *)
(***************************************************************************)
Digit(i) == CASE i = 0 -> "0" [] i = 1 -> "1" [] i = 2 -> "2" [] OTHER -> "9"

\* `tool_call_${index}`
DefaultId(index) == <<"tool_call_", Digit(index)>>

\* map.get(index): the position of the entry with that key, 0 when absent
MapPos(map, index) ==
    IF \E i \in DOMAIN map : map[i].key = index
    THEN CHOOSE i \in DOMAIN map : map[i].key = index
    ELSE 0

MapKeys(map) == {map[i].key : i \in DOMAIN map}

\* typeof callDelta.index === "number" ? callDelta.index : 0
SlotOf(callDelta) == IF IsNum(callDelta.index) THEN callDelta.index.v ELSE 0

\* the branch of accumulateToolCalls taken when the slot is new
NewCall(callDelta, index) ==
    [id |-> IF callDelta.id # Null THEN callDelta.id.v ELSE DefaultId(index),
     type |-> IF callDelta.type # Null THEN callDelta.type.v ELSE "function",
     function |->
        [name |-> IF callDelta.name # Null THEN callDelta.name.v ELSE <<>>,
         arguments |-> IF callDelta.arguments # Null
                       THEN callDelta.arguments.v ELSE <<>>]]

\* MergeCall with `=` in place of `+=` on the argument text
MergeCallOverwrite(call, callDelta) ==
    [id |-> IF Truthy(callDelta.id) THEN callDelta.id.v ELSE call.id,
     type |-> IF TruthyWord(callDelta.type) THEN callDelta.type.v ELSE call.type,
     function |->
        [name |-> IF Truthy(callDelta.name)
                  THEN call.function.name \o callDelta.name.v
                  ELSE call.function.name,
         arguments |-> IF Truthy(callDelta.arguments)
                       THEN callDelta.arguments.v
                       ELSE call.function.arguments]]

\* MergeCall putting a later argument fragment in front of the earlier text
MergeCallPrepend(call, callDelta) ==
    [id |-> IF Truthy(callDelta.id) THEN callDelta.id.v ELSE call.id,
     type |-> IF TruthyWord(callDelta.type) THEN callDelta.type.v ELSE call.type,
     function |->
        [name |-> IF Truthy(callDelta.name)
                  THEN call.function.name \o callDelta.name.v
                  ELSE call.function.name,
         arguments |-> IF Truthy(callDelta.arguments)
                       THEN callDelta.arguments.v \o call.function.arguments
                       ELSE call.function.arguments]]

\* MergeCall with `+=` in place of `=` on the id
MergeCallExtendId(call, callDelta) ==
    [id |-> IF Truthy(callDelta.id) THEN call.id \o callDelta.id.v ELSE call.id,
     type |-> IF TruthyWord(callDelta.type) THEN callDelta.type.v ELSE call.type,
     function |->
        [name |-> IF Truthy(callDelta.name)
                  THEN call.function.name \o callDelta.name.v
                  ELSE call.function.name,
         arguments |-> IF Truthy(callDelta.arguments)
                       THEN call.function.arguments \o callDelta.arguments.v
                       ELSE call.function.arguments]]

\* the branch of accumulateToolCalls taken when the slot exists
MergeCall(call, callDelta) ==
    [id |-> IF Truthy(callDelta.id) THEN callDelta.id.v ELSE call.id,
     type |-> IF TruthyWord(callDelta.type) THEN callDelta.type.v ELSE call.type,
     function |->
        [name |-> IF Truthy(callDelta.name)
                  THEN call.function.name \o callDelta.name.v
                  ELSE call.function.name,
         arguments |-> IF Truthy(callDelta.arguments)
                       THEN call.function.arguments \o callDelta.arguments.v
                       ELSE call.function.arguments]]

RECURSIVE accumulateToolCalls(_, _)
accumulateToolCalls(toolCallsDelta, map) ==
    IF toolCallsDelta = <<>> THEN map
    ELSE LET callDelta == Head(toolCallsDelta)
             index == SlotOf(callDelta)
             pos == MapPos(map, index)
             next == IF pos = 0
                     THEN Append(map, [key |-> index,
                                       call |-> NewCall(callDelta, index)])
                     ELSE [map EXCEPT ![pos].call = MergeCall(@, callDelta)]
         IN accumulateToolCalls(Tail(toolCallsDelta), next)

\* delta.reasoning_content ?? delta.reasoning ?? delta.thinking
ReasoningOf(delta) ==
    IF delta.reasoning_content # Null THEN delta.reasoning_content
    ELSE IF delta.reasoning # Null THEN delta.reasoning
    ELSE delta.thinking

\* one iteration of the for-await loop of consumeChatStream, on the message
ConsumeDelta(msg, delta) ==
    [role |-> IF TruthyWord(delta.role) THEN delta.role.v ELSE msg.role,
     reasoning_content |->
        IF Truthy(ReasoningOf(delta))
        THEN Str((IF msg.reasoning_content = Null THEN <<>>
                  ELSE msg.reasoning_content.v) \o ReasoningOf(delta).v)
        ELSE msg.reasoning_content,
     content |->
        IF Truthy(delta.content)
        THEN Str((IF msg.content = Null THEN <<>> ELSE msg.content.v)
                 \o delta.content.v)
        ELSE msg.content,
     tool_calls |-> msg.tool_calls]

\* one iteration of the for-await loop of consumeChatStream, on the map
ConsumeDeltaCalls(map, delta) ==
    IF delta.tool_calls # <<>> THEN accumulateToolCalls(delta.tool_calls, map)
    ELSE map

\* SortedCalls without the sort: the map's insertion order
UnsortedCalls(map) == [k \in DOMAIN map |-> map[k].call]

\* [...toolCallMap.entries()].sort((a, b) => a[0] - b[0]).map(([, call]) => call)
RECURSIVE SortedCalls(_)
SortedCalls(map) ==
    IF map = <<>> THEN <<>>
    ELSE LET lo == CHOOSE i \in DOMAIN map :
                       \A j \in DOMAIN map : map[i].key <= map[j].key
             rest == [k \in 1..(Len(map) - 1) |->
                         IF k < lo THEN map[k] ELSE map[k + 1]]
         IN <<map[lo].call>> \o SortedCalls(rest)

\* the code after the loop of consumeChatStream
FinalizeMessage(msg, map) ==
    [role |-> msg.role,
     content |-> IF Truthy(msg.content) THEN msg.content ELSE Null,
     reasoning_content |->
        IF Truthy(msg.reasoning_content) THEN msg.reasoning_content ELSE Null,
     tool_calls |-> IF Len(map) > 0 THEN SortedCalls(map) ELSE msg.tool_calls]

InitialMessage ==
    [role |-> "assistant", content |-> Str(<<>>),
     reasoning_content |-> Str(<<>>), tool_calls |-> <<>>]

(***************************************************************************)
(* The completion service: the chunks it may send.                         *)
(***************************************************************************)
ContentOpt == {Null, Str(<<>>), Str(<<"a">>), Str(<<"b">>), Str(<<"a", "b">>)}
ReasoningOpt == {Null, Str(<<>>), Str(<<"a">>)}
NameOpt == {Null, Str(<<"a">>)}
ArgsOpt == {Null, Str(<<"a">>), Str(<<"b">>)}
IdOpt == {Null, Str(<<"x">>)}
IndexOpt == {Null, Num(0), Num(1)}
ReasoningKeys == {"reasoning_content", "reasoning", "thinking"}

NoDelta ==
    [role |-> Null, reasoning_content |-> Null, reasoning |-> Null,
     thinking |-> Null, content |-> Null, tool_calls |-> <<>>]

TextDelta(role, key, r, c) ==
    [NoDelta EXCEPT !.role = role, ![key] = r, !.content = c]

CallDelta(index, id, name, arguments) ==
    [index |-> index, id |-> id,
     type |-> IF id = Null THEN Null ELSE Str("function"),
     name |-> name, arguments |-> arguments]

CallDeltas ==
    {CallDelta(i, id, n, a) :
        i \in IndexOpt, id \in IdOpt, n \in NameOpt, a \in ArgsOpt}

\* a delta that opens a slot, as the first fragment of a call does
OpenDeltas == {CallDelta(Num(i), Null, Str(<<"a">>), Null) : i \in {0, 1}}

\* What the service has sent: per kind of fragment, the concatenation of the
\* fragments in arrival order and their number (empty fragments included);
\* arrival lists the slots in the order of their first fragments; idLast is
\* the id of the slot's first fragment, then the last non-empty id sent.
NoText == [text |-> <<>>, n |-> 0]
More(acc, x) ==
    IF IsStr(x) THEN [text |-> acc.text \o x.v, n |-> acc.n + 1] ELSE acc
NoSlot == [id |-> NoText, idLast |-> Null, name |-> NoText, args |-> NoText]
NothingSent ==
    [content |-> NoText, reasoning |-> NoText, arrival |-> <<>>,
     slot |-> [s \in {0, 1} |-> NoSlot]]

RECURSIVE SentCalls(_, _)
SentCalls(s, toolCallsDelta) ==
    IF toolCallsDelta = <<>> THEN s
    ELSE LET d == Head(toolCallsDelta)
             i == SlotOf(d)
             s2 == [s EXCEPT
                      !.arrival = IF \E k \in DOMAIN @ : @[k] = i THEN @
                                  ELSE Append(@, i),
                      !.slot[i] = [id |-> More(@.id, d.id),
                                   idLast |->
                                      IF \A k \in DOMAIN s.arrival :
                                             s.arrival[k] # i
                                      THEN d.id
                                      ELSE IF Truthy(d.id) THEN d.id
                                      ELSE @.idLast,
                                   name |-> More(@.name, d.name),
                                   args |-> More(@.args, d.arguments)]]
         IN SentCalls(s2, Tail(toolCallsDelta))

Sent(s, delta) ==
    LET s1 == [s EXCEPT !.content = More(@, delta.content),
                        !.reasoning = More(@, ReasoningOf(delta))]
    IN SentCalls(s1, delta.tool_calls)

(***************************************************************************)
(* Actions of the stream assembler.                                        *)
(***************************************************************************)
StreamStart ==
    /\ phase = "streaming"
    /\ message = InitialMessage
    /\ toolCallMap = <<>>
    /\ sent = NothingSent
    /\ nChunks = 0


Consume(delta) ==
    /\ phase = "streaming"
    /\ nChunks < MaxChunks
    /\ message' = ConsumeDelta(message, delta)
    /\ toolCallMap' = ConsumeDeltaCalls(toolCallMap, delta)
    /\ sent' = Sent(sent, delta)
    /\ nChunks' = nChunks + 1
    /\ UNCHANGED phase
    /\ UNCHANGED <<dispatchVars, runnerVars, notebook, registryVars, configVars, promptVars, commandVars, storeVars, serviceVars>>

\* a chunk carrying a role and/or text
StreamText ==
    \E role \in {Null, Str("assistant")}, key \in ReasoningKeys,
       r \in ReasoningOpt, c \in ContentOpt :
        Consume(TextDelta(role, key, r, c))

\* a chunk carrying one tool-call fragment
StreamCall ==
    \E d \in CallDeltas : Consume([NoDelta EXCEPT !.tool_calls = <<d>>])

\* a chunk carrying the first fragments of two calls
StreamCalls ==
    \E d1 \in OpenDeltas, d2 \in OpenDeltas :
        Consume([NoDelta EXCEPT !.tool_calls = <<d1, d2>>])

\* the stream ends: the message is finalized
StreamEnd ==
    /\ phase = "streaming"
    /\ phase' = "done"
    /\ message' = FinalizeMessage(message, toolCallMap)
    /\ UNCHANGED <<toolCallMap, sent, nChunks>>
    /\ UNCHANGED <<dispatchVars, runnerVars, notebook, registryVars, configVars, promptVars, commandVars, storeVars, serviceVars>>

\* the stream throws: consumeChatStream rejects, nothing is returned
StreamError ==
    /\ phase = "streaming"
    /\ phase' = "failed"
    /\ UNCHANGED <<message, toolCallMap, sent, nChunks>>
    /\ UNCHANGED <<dispatchVars, runnerVars, notebook, registryVars, configVars, promptVars, commandVars, storeVars, serviceVars>>


(***************************************************************************)
(* Conversation history and request composer.                              *)
(***************************************************************************)
SYSTEM_PROMPT == <<"SYSTEM_PROMPT">>
Instruction == [role |-> "system", content |-> Str(SYSTEM_PROMPT)]
UserTurn(text) == [role |-> "user", content |-> Str(text)]

\* ensureSystemPrompt: unshift the instruction unless the history starts
\* with a system turn
ensureSystemPrompt(h) ==
    IF h # <<>> /\ h[1].role = "system" THEN h ELSE <<Instruction>> \o h

\* 1-based position of the most recent user turn, 0 when there is none
LastUser(h) ==
    IF \E i \in DOMAIN h : h[i].role = "user"
    THEN CHOOSE i \in DOMAIN h :
            h[i].role = "user" /\ \A j \in DOMAIN h : j > i => h[j].role # "user"
    ELSE 0

\* getLastUserQuery scanning from the oldest turn: the first query is kept
getFirstUserQuery(h) ==
    IF \E i \in DOMAIN h : h[i].role = "user"
    THEN h[CHOOSE i \in DOMAIN h :
              /\ h[i].role = "user"
              /\ \A j \in 1..(i - 1) : h[j].role # "user"].content.v
    ELSE <<>>

\* getLastUserQuery (user content is always a string here)
getLastUserQuery(h) == IF LastUser(h) = 0 THEN <<>> ELSE h[LastUser(h)].content.v

\* buildDynamicNotebookSystemText: the status text, as pieces
buildDynamicNotebookSystemText(h) ==
    <<"=== env ===", "[User Last Query]: ">> \o getLastUserQuery(h)
        \o <<"=== notebook ===">> \o toPrettyJSON(notebook)

DynamicSystem(h) ==
    [role |-> "system", content |-> Str(buildDynamicNotebookSystemText(h))]

\* messages.splice(insertIdx, 0, x), insertIdx counted from 0
Splice(messages, insertIdx, x) ==
    SubSeq(messages, 1, insertIdx) \o <<x>>
        \o SubSeq(messages, insertIdx + 1, Len(messages))

\* resolveDynamicSystemInsertIndex always inserting before the last message
resolveInsertBeforeLast(h) == Len(h) - 1

\* resolveDynamicSystemInsertIndex returning i where i + 1 is meant
resolveInsertBeforeUser(h) ==
    IF LastUser(h) = 0 THEN Len(h) ELSE LastUser(h) - 1

\* resolveDynamicSystemInsertIndex returning i + 1 also for a last user turn
resolveInsertAfterUser(h) ==
    IF LastUser(h) = 0 THEN Len(h) ELSE LastUser(h)

\* resolveDynamicSystemInsertIndex falling back to index 0 without a user turn
resolveInsertFallbackFront(h) ==
    IF LastUser(h) = 0 THEN 0
    ELSE IF LastUser(h) - 1 = Len(h) - 1 THEN LastUser(h) - 1
    ELSE LastUser(h)

\* resolveDynamicSystemInsertIndex; indices count from 0 as in the code, so
\* the user turn found at 1-based position u has index i = u - 1
resolveDynamicSystemInsertIndex(h) ==
    IF LastUser(h) = 0 THEN Len(h)
    ELSE IF LastUser(h) - 1 = Len(h) - 1 THEN LastUser(h) - 1
    ELSE LastUser(h)

\* buildRequestMessages with the branches of the one-turn case swapped
buildRequestMessagesSwapped(h) ==
    IF Len(h) = 0 THEN <<DynamicSystem(h)>>
    ELSE IF Len(h) = 1
    THEN IF h[1].role = "system" THEN <<DynamicSystem(h), h[1]>>
         ELSE <<h[1], DynamicSystem(h)>>
    ELSE Splice(h, resolveDynamicSystemInsertIndex(h), DynamicSystem(h))

buildRequestMessages(h) ==
    IF Len(h) = 0 THEN <<DynamicSystem(h)>>
    ELSE IF Len(h) = 1
    THEN IF h[1].role = "system" THEN <<h[1], DynamicSystem(h)>>
         ELSE <<DynamicSystem(h), h[1]>>
    ELSE Splice(h, resolveDynamicSystemInsertIndex(h), DynamicSystem(h))

NotYet == [t |-> "none"]
RunnerIdle ==
    /\ history = ensureSystemPrompt(<<>>)
    /\ requestMessages = <<>>
    /\ rpc = "prompt"
    /\ round = 0
    /\ loopMsg = NotYet
    /\ requests = 0
    /\ loopExit = "none"
    /\ returned = NotYet
    /\ nInputs = 0
    /\ notebook = <<>>

(***************************************************************************)
(* Tool registry (ToolSystem.register).  The registry is a Map in          *)
(* insertion order: a sequence of descriptors with distinct names.         *)
(***************************************************************************)
\* String.prototype.trim: the white space at both ends is dropped
RECURSIVE trimStart(_)
trimStart(text) ==
    IF text # <<>> /\ Head(text) = " " THEN trimStart(Tail(text)) ELSE text
RECURSIVE trimEnd(_)
trimEnd(text) ==
    IF text # <<>> /\ text[Len(text)] = " "
    THEN trimEnd(SubSeq(text, 1, Len(text) - 1))
    ELSE text
StringTrim(text) == trimEnd(trimStart(text))

\* this.tools.has(name)
ToolsHas(map, name) == \E i \in DOMAIN map : map[i].name = name

\* this.tools.set(name, def): a new key goes last, a key already there
\* keeps its place and gets the new value
ToolsSet(map, name, def) ==
    IF ToolsHas(map, name)
    THEN [i \in DOMAIN map |-> IF map[i].name = name THEN def ELSE map[i]]
    ELSE Append(map, def)

\* register without the check for a name already taken
registerReplace(map, tool) ==
    LET name == StringTrim(tool.name)
    IN IF name = <<>>
       THEN [threw |-> TRUE, error |-> <<"Tool name cannot be empty">>,
             tools |-> map]
       ELSE [threw |-> FALSE, error |-> <<>>,
             tools |-> ToolsSet(map, name, [tool EXCEPT !.name = name])]

\* ToolSystem.register
register(map, tool) ==
    LET name == StringTrim(tool.name)
    IN IF name = <<>>
       THEN [threw |-> TRUE, error |-> <<"Tool name cannot be empty">>,
             tools |-> map]
       ELSE IF ToolsHas(map, name)
       THEN [threw |-> TRUE,
             error |-> <<"Tool already registered: ">> \o name,
             tools |-> map]
       ELSE [threw |-> FALSE, error |-> <<>>,
             tools |-> ToolsSet(map, name, [tool EXCEPT !.name = name])]

\* the descriptors handed to register
ToolNames == {<<>>, <<" ">>, <<"ls">>, <<" ", "ls">>, <<"ls", " ">>,
              <<"pwd">>}
ToolHandlers == {"handlerA", "handlerB"}
ToolDefs == [name : ToolNames, handler : ToolHandlers]

NoRegister == [t |-> "none"]
RegistryIdle ==
    /\ tools = <<>>
    /\ regLast = NoRegister
    /\ nRegs = 0

\* one call of register
Register(tool) ==
    /\ nRegs < MaxRegisters
    /\ LET r == register(tools, tool)
       IN /\ tools' = r.tools
          /\ regLast' = [t |-> "register", tool |-> tool, threw |-> r.threw,
                         error |-> r.error]
    /\ nRegs' = nRegs + 1
    /\ UNCHANGED <<streamVars, dispatchVars, runnerVars, notebook, configVars, promptVars, commandVars, storeVars, serviceVars>>

(***************************************************************************)
(* Runtime configuration (RuntimeConfigService.buildSnapshot).             *)
(***************************************************************************)
\* trim of runtime_config.ts: undefined unless a non-blank string
trim(value) ==
    IF value.t # "str" THEN Null
    ELSE IF StringTrim(value.v) = <<>> THEN Null
    ELSE Str(StringTrim(value.v))

\* readEnvLLMConfig
readEnvLLMConfig(e) ==
    [apiKey |-> trim(e.TOY_API_KEY),
     baseUrl |-> trim(e.TOY_BASE_URL),
     model |-> trim(e.TOY_MODEL),
     fastModel |-> trim(e.TOY_FAST_MODEL)]

\* effectiveValue looking at the environment before the profile
effectiveValueEnvFirst(profileValue, envValue) ==
    IF Truthy(envValue) THEN [value |-> envValue, source |-> "env"]
    ELSE IF Truthy(profileValue) THEN [value |-> profileValue, source |-> "profile"]
    ELSE [value |-> Null, source |-> "missing"]

\* effectiveValue of buildSnapshot
effectiveValue(profileValue, envValue) ==
    IF Truthy(profileValue) THEN [value |-> profileValue, source |-> "profile"]
    ELSE IF Truthy(envValue) THEN [value |-> envValue, source |-> "env"]
    ELSE [value |-> Null, source |-> "missing"]

\* stored.profiles.find((profile) => profile.id === stored.activeProfileId)
FindProfile(st) ==
    IF \E i \in DOMAIN st.profiles : st.profiles[i].id = st.activeProfileId
    THEN LET i == CHOOSE i \in DOMAIN st.profiles :
                    /\ st.profiles[i].id = st.activeProfileId
                    /\ \A j \in 1..(i - 1) :
                          st.profiles[j].id # st.activeProfileId
         IN st.profiles[i]
    ELSE Null

\* activeProfile?.field
FieldOf(activeProfile, field) ==
    IF activeProfile = Null THEN Null ELSE activeProfile[field]

ConfigFields == {"apiKey", "baseUrl", "model", "fastModel"}

\* buildSnapshot
buildSnapshot(st, e) ==
    LET activeProfile == IF Truthy(st.activeProfileId) THEN FindProfile(st)
                         ELSE Null
        envVars == readEnvLLMConfig(e)
        field == [f \in ConfigFields |->
                    effectiveValue(FieldOf(activeProfile, f), envVars[f])]
    IN [stored |-> st,
        activeProfile |-> activeProfile,
        effective |-> [apiKey |-> field["apiKey"].value,
                       baseUrl |-> field["baseUrl"].value,
                       model |-> field["model"].value,
                       fastModel |-> field["fastModel"].value,
                       sources |-> [f \in ConfigFields |-> field[f].source]]]

\* the stored configurations, as ConfigStore.load normalises them: a field
\* is undefined or a non-blank trimmed string, the active id is undefined or
\* the id of a profile
ProfileFieldOpt == {Null, Str(<<"p">>)}
ProfilesA == [id : {Str(<<"a">>)}, apiKey : ProfileFieldOpt,
              baseUrl : ProfileFieldOpt, model : ProfileFieldOpt,
              fastModel : ProfileFieldOpt]
ProfileB == [id |-> Str(<<"b">>), apiKey |-> Str(<<"kb">>),
             baseUrl |-> Null, model |-> Str(<<"mb">>), fastModel |-> Null]
StoredConfigs ==
    {[activeProfileId |-> Null, profiles |-> <<>>]}
    \cup [activeProfileId : {Null, Str(<<"a">>), Str(<<"b">>)},
          profiles : {<<a, ProfileB>> : a \in ProfilesA}]
\* process.env: a variable is unset, blank or carries a value with blanks
\* around it
EnvOpt == {Null, Str(<<" ">>), Str(<<" ", "e">>)}
Envs == [TOY_API_KEY : EnvOpt, TOY_BASE_URL : EnvOpt, TOY_MODEL : EnvOpt,
         TOY_FAST_MODEL : EnvOpt]

DEFAULT_STORED_CONFIG == [activeProfileId |-> Null, profiles |-> <<>>]
NoEnv == [TOY_API_KEY |-> Null, TOY_BASE_URL |-> Null, TOY_MODEL |-> Null,
          TOY_FAST_MODEL |-> Null]
NotBuilt == [t |-> "none"]
ConfigIdle ==
    /\ stored = DEFAULT_STORED_CONFIG
    /\ env = NoEnv
    /\ snapshot = NotBuilt

\* reload: the snapshot is built from the stored configuration
Reload ==
    /\ snapshot' = buildSnapshot(stored, env)
    /\ UNCHANGED <<stored, env>>
    /\ UNCHANGED <<streamVars, dispatchVars, runnerVars, notebook, registryVars,
                   promptVars, commandVars, storeVars, serviceVars>>

(***************************************************************************)
(* Configuration store and service (ConfigStore, RuntimeConfigService) and *)
(* the subscription of main.  The file is absent, unreadable (no JSON, or  *)
(* rejected by the schema), or holds a raw configuration.                  *)
(***************************************************************************)
\* trimOrUndefined
trimOrUndefined(value) ==
    IF ~IsStr(value) THEN Null
    ELSE IF Len(StringTrim(value.v)) > 0 THEN Str(StringTrim(value.v))
    ELSE Null

\* the profile normalizeStoredConfig makes of a raw one, uuid being what
\* randomUUID() returns for it
NormalProfile(profile, uuid) ==
    [id |-> IF Truthy(trimOrUndefined(profile.id))
            THEN trimOrUndefined(profile.id) ELSE uuid,
     apiKey |-> trimOrUndefined(profile.apiKey),
     baseUrl |-> trimOrUndefined(profile.baseUrl),
     model |-> trimOrUndefined(profile.model),
     fastModel |-> trimOrUndefined(profile.fastModel)]

\* normalizeStoredConfig keeping the active id as it is
normalizeKeepActive(raw, uuids) ==
    LET profiles == [i \in DOMAIN raw.profiles |->
                        NormalProfile(raw.profiles[i], uuids[i])]
    IN IF \E i, j \in DOMAIN profiles : i < j /\ profiles[i].id = profiles[j].id
       THEN [threw |-> TRUE]
       ELSE [threw |-> FALSE,
             config |-> [activeProfileId |-> trimOrUndefined(raw.activeProfileId),
                         profiles |-> profiles]]

\* normalizeStoredConfig: a duplicate id throws, an active id that names no
\* profile is dropped
normalizeStoredConfig(raw, uuids) ==
    LET profiles == [i \in DOMAIN raw.profiles |->
                        NormalProfile(raw.profiles[i], uuids[i])]
        activeProfileId == trimOrUndefined(raw.activeProfileId)
        fixedActive ==
            IF Truthy(activeProfileId)
               /\ \E i \in DOMAIN profiles : profiles[i].id = activeProfileId
            THEN activeProfileId ELSE Null
    IN IF \E i, j \in DOMAIN profiles : i < j /\ profiles[i].id = profiles[j].id
       THEN [threw |-> TRUE]
       ELSE [threw |-> FALSE,
             config |-> [activeProfileId |-> fixedActive, profiles |-> profiles]]

Absent == [t |-> "absent"]
Unreadable == [t |-> "unreadable"]
Json(config) == [t |-> "json", config |-> config]

\* ConfigStore.load: the default for a missing file, the normalized
\* configuration otherwise; a file that is no JSON or fails the schema throws
load(f, uuids) ==
    IF f = Absent THEN [threw |-> FALSE, config |-> DEFAULT_STORED_CONFIG]
    ELSE IF f = Unreadable THEN [threw |-> TRUE]
    ELSE normalizeStoredConfig(f.config, uuids)

\* ConfigStore.save: the normalized configuration is written, unless
\* normalizing throws or the write fails
save(config, uuids, written) ==
    LET normalized == normalizeStoredConfig(config, uuids)
    IN IF normalized.threw \/ ~written THEN [threw |-> TRUE]
       ELSE [threw |-> FALSE, file |-> Json(normalized.config)]

\* requireLLMConfig
requireLLMConfig(snap) ==
    IF ~Truthy(snap.effective.apiKey) \/ ~Truthy(snap.effective.baseUrl)
       \/ ~Truthy(snap.effective.model)
    THEN [threw |-> TRUE]
    ELSE [threw |-> FALSE,
          ready |-> [apiKey |-> snap.effective.apiKey,
                     baseUrl |-> snap.effective.baseUrl,
                     model |-> snap.effective.model,
                     fastModel |-> snap.effective.fastModel]]

\* createLLMRuntimeFromSnapshot
createLLMRuntimeFromSnapshot(snap) ==
    LET r == requireLLMConfig(snap)
    IN IF r.threw THEN [threw |-> TRUE]
       ELSE [threw |-> FALSE,
             runtime |-> [client |-> [apiKey |-> r.ready.apiKey,
                                      baseURL |-> r.ready.baseUrl],
                          primaryModel |-> r.ready.model,
                          fastModel |-> r.ready.fastModel]]

\* updateLLMRuntime that keeps the runtime of the constructor
updateLLMRuntimeIgnored(current, runtime) == current

\* ChatRunner.updateLLMRuntime
updateLLMRuntime(current, runtime) == runtime

\* the listener main subscribes: the runtime is replaced when one can be
\* made of the snapshot, the error is printed otherwise
MainListener(current, snap) ==
    IF createLLMRuntimeFromSnapshot(snap).threw THEN current
    ELSE updateLLMRuntime(current, createLLMRuntimeFromSnapshot(snap).runtime)

\* emit: the listeners are called in the order of the set, each with the
\* snapshot; the listener of main works on the runner, any other listener
\* only looks
RECURSIVE emit(_, _, _)
emit(ls, snap, current) ==
    IF ls = <<>> THEN [notified |-> <<>>, llm |-> current]
    ELSE LET rest == emit(Tail(ls), snap,
                          IF Head(ls) = "main" THEN MainListener(current, snap)
                          ELSE current)
         IN [notified |-> <<[listener |-> Head(ls), snapshot |-> snap]>>
                             \o rest.notified,
             llm |-> rest.llm]

\* the mutators of the config command: add, edit, delete, activate
handleAdd(current, profile) ==
    [activeProfileId |-> IF current.activeProfileId # Null
                         THEN current.activeProfileId ELSE profile.id,
     profiles |-> Append(current.profiles, profile)]
handleEdit(current, updated) ==
    [activeProfileId |-> current.activeProfileId,
     profiles |-> [i \in DOMAIN current.profiles |->
                     IF current.profiles[i].id = updated.id THEN updated
                     ELSE current.profiles[i]]]
handleDelete(current, target) ==
    LET nextProfiles == SelectSeq(current.profiles, LAMBDA q : q.id # target.id)
    IN [activeProfileId |->
            IF current.activeProfileId = target.id
            THEN IF nextProfiles = <<>> THEN Null ELSE nextProfiles[1].id
            ELSE current.activeProfileId,
        profiles |-> nextProfiles]
handleActivate(current, choice) ==
    [activeProfileId |-> choice, profiles |-> current.profiles]

\* what the prompts of the config command yield: a profile with every
\* required field, or one without any
ProfileFull(id) ==
    [id |-> id, apiKey |-> Str(<<"k">>), baseUrl |-> Str(<<"u">>),
     model |-> Str(<<"m">>), fastModel |-> Null]
ProfileBare(id) ==
    [id |-> id, apiKey |-> Null, baseUrl |-> Null, model |-> Null,
     fastModel |-> Null]

\* the values of randomUUID(): the i-th value drawn is new, or, against
\* all odds, the first one again
Uuid(i) == Str(<<"u", Digit(i)>>)
UuidPool == {Uuid(1), Uuid(2)}
Uuids(n) == {[i \in 1..n |-> Uuid(i)], [i \in 1..n |-> Uuid(1)]}

\* the values randomUUID() may return while raw is normalized: it is called
\* for a profile without id only
Draws(raw) ==
    IF \A i \in DOMAIN raw.profiles :
           Truthy(trimOrUndefined(raw.profiles[i].id))
    THEN {[i \in DOMAIN raw.profiles |-> Null]}
    ELSE Uuids(Len(raw.profiles))
FileDraws(f) == IF f.t = "json" THEN Draws(f.config) ELSE {<<>>}

\* the configurations the mutators return for the current one
Mutations(current) ==
    {handleAdd(current, profile) :
        profile \in {ProfileFull(id) : id \in UuidPool}
                    \cup {ProfileBare(id) : id \in UuidPool}}
    \cup {handleEdit(current, updated) :
            updated \in {ProfileFull(current.profiles[i].id) :
                            i \in DOMAIN current.profiles}
                        \cup {ProfileBare(current.profiles[i].id) :
                                i \in DOMAIN current.profiles}}
    \cup {handleDelete(current, current.profiles[i]) :
            i \in DOMAIN current.profiles}
    \cup {handleActivate(current, choice) :
            choice \in IF current.profiles = <<>> THEN {}
                       ELSE {Null} \cup {current.profiles[i].id :
                                           i \in DOMAIN current.profiles}}

\* what an editor may leave in the file: a profile without id, a padded
\* id, the same id twice, an active id that names no profile
RawFiles ==
    {Absent, Unreadable,
     Json([activeProfileId |-> Str(<<"a">>),
           profiles |-> <<ProfileFull(Str(<<" ", "a">>))>>]),
     Json([activeProfileId |-> Str(<<"zz">>),
           profiles |-> <<ProfileBare(Null)>>]),
     Json([activeProfileId |-> Null,
           profiles |-> <<ProfileFull(Str(<<"a">>)), ProfileBare(Str(<<"a", " ">>))>>])}

\* the file main finds at its start
StartFiles ==
    {Absent,
     Json([activeProfileId |-> Str(<<"a">>),
           profiles |-> <<ProfileFull(Str(<<" ", "a">>))>>])}

\* the environments of the process: nothing set, or every required
\* variable set
FullEnv ==
    [TOY_API_KEY |-> Str(<<"e">>), TOY_BASE_URL |-> Str(<<"e">>),
     TOY_MODEL |-> Str(<<"e">>), TOY_FAST_MODEL |-> Null]
ServiceEnvs == {NoEnv, FullEnv}

NoRuntime == [t |-> "none"]
NoServiceCall == [t |-> "none"]
ServiceIdle ==
    /\ file = Absent
    /\ listeners = <<>>
    /\ llm = NoRuntime
    /\ svcLast = NoServiceCall

\* svcLast after a call
Called(op, threw, notified) ==
    [t |-> "call", op |-> op, threw |-> threw, notified |-> notified]

\* main up to runner.run(): init loads the file and builds the snapshot,
\* the runtime is made of it, the runner constructed and the listener
\* subscribed; when init or requireLLMConfig throws, main ends
MainStart ==
    /\ svcLast = NoServiceCall
    /\ \E uuids \in FileDraws(file) :
         LET loaded == load(file, uuids)
             snap == buildSnapshot(loaded.config, env)
         IN IF loaded.threw
            THEN /\ svcLast' = Called("start", TRUE, <<>>)
                 /\ UNCHANGED <<stored, snapshot, listeners, llm>>
            ELSE /\ stored' = loaded.config
                 /\ snapshot' = snap
                 /\ IF createLLMRuntimeFromSnapshot(snap).threw
                    THEN /\ svcLast' = Called("start", TRUE, <<>>)
                         /\ UNCHANGED <<listeners, llm>>
                    ELSE /\ llm' = createLLMRuntimeFromSnapshot(snap).runtime
                         /\ listeners' = <<"main">>
                         /\ svcLast' = Called("start", FALSE, <<>>)
    /\ UNCHANGED <<file, env>>
    /\ UNCHANGED <<streamVars, dispatchVars, runnerVars, notebook,
                   registryVars, promptVars, commandVars, storeVars>>

\* the service is in use: main has started and has not ended
Serving == llm # NoRuntime

\* RuntimeConfigService.update with the configuration the mutator returns:
\* save, load, buildSnapshot, emit; a failing save or load leaves stored
\* and snapshot as they are and calls no listener
ServiceUpdate(next, written) ==
    /\ Serving
    /\ Len(next.profiles) <= MaxProfiles
    /\ \E uuids \in Draws(next) :
         LET saved == save(next, uuids, written)
             loaded == load(saved.file, uuids)
             snap == buildSnapshot(loaded.config, env)
             emitted == emit(listeners, snap, llm)
         IN IF saved.threw
            THEN /\ svcLast' = Called("update", TRUE, <<>>)
                 /\ UNCHANGED <<file, stored, snapshot, llm>>
            ELSE /\ file' = saved.file
                 /\ IF loaded.threw
                    THEN /\ svcLast' = Called("update", TRUE, <<>>)
                         /\ UNCHANGED <<stored, snapshot, llm>>
                    ELSE /\ stored' = loaded.config
                         /\ snapshot' = snap
                         /\ llm' = emitted.llm
                         /\ svcLast' = Called("update", FALSE, emitted.notified)
    /\ UNCHANGED <<env, listeners>>
    /\ UNCHANGED <<streamVars, dispatchVars, runnerVars, notebook,
                   registryVars, promptVars, commandVars, storeVars>>

\* RuntimeConfigService.reload: load, buildSnapshot, emit
ServiceReload ==
    /\ Serving
    /\ \E uuids \in FileDraws(file) :
         LET loaded == load(file, uuids)
             snap == buildSnapshot(loaded.config, env)
             emitted == emit(listeners, snap, llm)
         IN IF loaded.threw
            THEN /\ svcLast' = Called("reload", TRUE, <<>>)
                 /\ UNCHANGED <<stored, snapshot, llm>>
            ELSE /\ stored' = loaded.config
                 /\ snapshot' = snap
                 /\ llm' = emitted.llm
                 /\ svcLast' = Called("reload", FALSE, emitted.notified)
    /\ UNCHANGED <<file, env, listeners>>
    /\ UNCHANGED <<streamVars, dispatchVars, runnerVars, notebook,
                   registryVars, promptVars, commandVars, storeVars>>

\* subscribe: this.listeners.add(listener)
Subscribe(listener) ==
    /\ Serving
    /\ listeners' = IF \E i \in DOMAIN listeners : listeners[i] = listener
                    THEN listeners ELSE Append(listeners, listener)
    /\ svcLast' = Called("subscribe", FALSE, <<>>)
    /\ UNCHANGED <<file, llm, configVars>>
    /\ UNCHANGED <<streamVars, dispatchVars, runnerVars, notebook,
                   registryVars, promptVars, commandVars, storeVars>>

\* the function subscribe returned: this.listeners.delete(listener)
Unsubscribe(listener) ==
    /\ Serving
    /\ listeners' = SelectSeq(listeners, LAMBDA l : l # listener)
    /\ svcLast' = Called("unsubscribe", FALSE, <<>>)
    /\ UNCHANGED <<file, llm, configVars>>
    /\ UNCHANGED <<streamVars, dispatchVars, runnerVars, notebook,
                   registryVars, promptVars, commandVars, storeVars>>

\* the file is changed from outside the program
FileEdited(f) ==
    /\ file' = f
    /\ svcLast' = IF svcLast = NoServiceCall THEN svcLast
                  ELSE Called("edited", FALSE, <<>>)
    /\ UNCHANGED <<listeners, llm, configVars>>
    /\ UNCHANGED <<streamVars, dispatchVars, runnerVars, notebook,
                   registryVars, promptVars, commandVars, storeVars>>

\* requestModelMessage: the request is issued with this.llm.client and
\* this.llm.primaryModel as they are at that moment
ServiceRequest ==
    /\ Serving
    /\ svcLast' = [t |-> "call", op |-> "request", threw |-> FALSE,
                   notified |-> <<>>, client |-> llm.client,
                   model |-> llm.primaryModel]
    /\ UNCHANGED <<file, listeners, llm, configVars>>
    /\ UNCHANGED <<streamVars, dispatchVars, runnerVars, notebook,
                   registryVars, promptVars, commandVars, storeVars>>

(***************************************************************************)
(* Tool loop and interactive session.                                      *)
(***************************************************************************)
\* consumeChatStream applied to a whole stream
RECURSIVE ConsumeAll(_, _, _)
ConsumeAll(msg, map, stream) ==
    IF stream = <<>> THEN FinalizeMessage(msg, map)
    ELSE ConsumeAll(ConsumeDelta(msg, Head(stream)),
                    ConsumeDeltaCalls(map, Head(stream)), Tail(stream))

consumeChatStream(stream) == ConsumeAll(InitialMessage, <<>>, stream)

\* The streams the completion service answers with in a session:
\*   - nothing at all;
\*   - a plain answer;
\*   - reasoning and visible text with two calls, slot 1 first: slot 1 names
\*     an unknown tool, slot 0 (no index, no id) is ls({});
\*   - no text, with three calls: slot 0 is ls({"path":"src"}) in three
\*     argument fragments, slot 1 has no argument text, slot 2 is add_note
\*     with a key, a title and a content.
CallsOnly(deltas) == [NoDelta EXCEPT !.tool_calls = deltas]
SessionStreams ==
    {<<>>,
     <<TextDelta(Str("assistant"), "reasoning_content", Null, Str(<<"a">>))>>,
     <<[TextDelta(Str("assistant"), "reasoning", Str(<<"r">>), Str(<<"a">>))
          EXCEPT !.tool_calls =
            <<CallDelta(Num(1), Str(<<"call_2">>), Str(<<"nope">>),
                        Str(<<"{", "}">>))>>],
       CallsOnly(<<CallDelta(Null, Null, Str(<<"ls">>), Str(<<"{">>))>>),
       CallsOnly(<<CallDelta(Num(0), Null, Null, Str(<<"}">>))>>)>>,
     <<CallsOnly(<<CallDelta(Num(0), Str(<<"call_1">>), Str(<<"ls">>),
                             Str(<<"{">>))>>),
       CallsOnly(<<CallDelta(Num(0), Null, Null, Str(<<JsonMember>>))>>),
       CallsOnly(<<CallDelta(Num(0), Null, Null, Str(<<"}">>)),
                   CallDelta(Num(1), Str(<<"call_2">>), Str(<<"ls">>), Null),
                   CallDelta(Num(2), Str(<<"call_3">>), Str(<<"add_note">>),
                             Str(<<"{", NoteMember, "}">>))>>)>>}

\* the turns consumeChatStream assembles from them
SessionTurns == {consumeChatStream(stream) : stream \in SessionStreams}

\* what the user types as the n-th message
UserText(n) == <<"q", Digit(n)>>

\* a handler that never settles
SessionOutcomesHang == {}

\* what a handler does in a session: add_note works on the notebook, ls
\* gives a listing for a path and fails without one
SessionOutcomes ==
    IF callIdx \in DOMAIN toolCalls
          /\ toolCalls[callIdx].function.name = <<"add_note">>
    THEN {addNoteTool(notebook, ArgsOf(safeJsonParse(
                    toolCalls[callIdx].function.arguments)))}
    ELSE IF callIdx \in DOMAIN toolCalls
          /\ JsonMember \in ArgsOf(safeJsonParse(
                    toolCalls[callIdx].function.arguments)).members
    THEN {[threw |-> FALSE, value |-> <<"src/a.ts">>, adds |-> <<>>]}
    ELSE {[threw |-> TRUE, error |-> [kind |-> "Error", message |-> <<"ENOENT">>],
           adds |-> <<>>]}

\* appendToolResults pushing the results last to first
PushToolTurnsReversed(h, res) ==
    h \o [k \in DOMAIN res |->
            [role |-> "tool",
             tool_call_id |-> res[Len(res) + 1 - k].tool_call_id,
             content |-> res[Len(res) + 1 - k].content]]

\* appendToolResults putting the tool turns in front of the turn they answer
PushToolTurnsBeforeCaller(h, res) ==
    SubSeq(h, 1, Len(h) - 1)
        \o [k \in DOMAIN res |->
              [role |-> "tool", tool_call_id |-> res[k].tool_call_id,
               content |-> res[k].content]]
        \o <<h[Len(h)]>>

\* the for-of loop of appendToolResults
PushToolTurns(h, res) ==
    h \o [k \in DOMAIN res |->
            [role |-> "tool", tool_call_id |-> res[k].tool_call_id,
             content |-> res[k].content]]

\* buildRequestMessages working on the history itself instead of a copy
HistoryAfterBuildInPlace(h) ==
    IF Len(h) < 2 THEN h
    ELSE Splice(h, resolveDynamicSystemInsertIndex(h), DynamicSystem(h))

\* what buildRequestMessages leaves in conversationHistory: the block is
\* spliced into history.slice(), a copy
HistoryAfterBuild(h) == h

\* the loop condition stopping one round early
RoundsLeftBeforeLast(r) == r < MaxToolRounds - 1

\* the for condition of runToolLoop with <= in place of <
RoundsLeftInclusive(r) == r <= MaxToolRounds

\* round < this.maxToolRounds
RoundsLeft(r) == r < MaxToolRounds

\* getFinalText returning the reasoning text
getFinalTextReasoning(m) == m.reasoning_content

\* getFinalText: message.content ?? null
getFinalText(m) == m.content

\* runToolLoop appending the turn as it was assembled
TurnAsAssembled(m) == m

\* runToolLoop before appendAssistantMessage: a turn with tool calls gets its
\* reasoning text as content
TurnToAppend(m) ==
    IF Len(m.tool_calls) > 0 THEN [m EXCEPT !.content = m.reasoning_content]
    ELSE m

\* appendUserMessage putting the turn in front
appendUserMessageFront(h, text) == <<UserTurn(text)>> \o h

\* appendUserMessage: conversationHistory.push({ role: "user", content })
appendUserMessage(h, text) == Append(h, UserTurn(text))

\* the clear command without ensureSystemPrompt
clearHistoryNoSeed(h) == SubSeq(h, 1, 0)

\* the clear command without the truncation
clearHistoryKeepTurns(h) == ensureSystemPrompt(h)

\* clearCommand on the history: conversationHistory.length = 0, then
\* ensureSystemPrompt(conversationHistory)
clearHistory(h) == ensureSystemPrompt(SubSeq(h, 1, 0))

\* ---- the prompt and the command layer ----
PromptIdle == lastInput = Null

\* String.prototype.toLowerCase, symbol by symbol
LowerSymbol(c) ==
    CASE c = "EXIT" -> "exit" [] c = "Clear" -> "clear" [] c = "Q" -> "q"
      [] OTHER -> c
toLowerCase(text) == [i \in DOMAIN text |-> LowerSymbol(text[i])]

\* the prefix the command system is constructed with
prefix == "/"

\* input.startsWith(prefix)
startsWith(text, p) == text # <<>> /\ Head(text) = p

\* split(/\s+/).filter(Boolean): the maximal runs of symbols that are not
\* white space
RECURSIVE WordLen(_)
WordLen(text) ==
    IF text = <<>> \/ Head(text) = " " THEN 0 ELSE 1 + WordLen(Tail(text))
RECURSIVE SplitWords(_)
SplitWords(text) ==
    IF text = <<>> THEN <<>>
    ELSE IF Head(text) = " " THEN SplitWords(Tail(text))
    ELSE <<SubSeq(text, 1, WordLen(text))>>
         \o SplitWords(SubSeq(text, WordLen(text) + 1, Len(text)))

\* CommandSystem.parse: null unless the input starts with the prefix
parse(input) ==
    IF ~startsWith(input, prefix) THEN Null
    ELSE LET parts == SplitWords(StringTrim(Tail(input)))
         IN [t |-> "parsed",
             name |-> IF parts = <<>> THEN <<>> ELSE toLowerCase(Head(parts)),
             args |-> IF parts = <<>> THEN <<>> ELSE Tail(parts)]

\* the keys of the lookup table after the registrations of main
CommandNames ==
    {<<"clear">>, <<"exit">>, <<"tools">>, <<"save">>, <<"m">>, <<"config">>}

\* the command a line invokes: the name when the line is a command whose
\* name is in the lookup table, the empty name otherwise
Invoked(input) ==
    LET parsed == parse(input)
    IN IF parsed = Null THEN <<>>
       ELSE IF parsed.name \in CommandNames THEN parsed.name ELSE <<>>

\* what the handlers return: clear, tools, save and config return nothing,
\* exit returns the object { type: "exit" }, m returns { type: "continue" }
\* or { type: "replace_input", input }
Undefined == [t |-> "undefined"]
ActionObject(type) == [t |-> "object", type |-> type]
HandlerResults(name) ==
    CASE name = <<"exit">> -> {ActionObject("exit")}
      [] name = <<"m">> -> {ActionObject("continue"),
                            ActionObject("replace_input")}
      [] OTHER -> {Undefined}

\* CommandSystem.tryHandle, result being what the handler returned: null
\* for a line that is no command, "continue" for the bare prefix and for an
\* unknown name, and `result ?? "continue"` for a known one
tryHandle(input, result) ==
    LET parsed == parse(input)
    IN IF parsed = Null THEN Null
       ELSE IF parsed.name = <<>> THEN Str(<<"continue">>)
       ELSE IF parsed.name \notin CommandNames THEN Str(<<"continue">>)
       ELSE IF result \in {Undefined, Null} THEN Str(<<"continue">>)
       ELSE result

\* promptUserInput that hands a blank line on
promptUserInputKeepBlank(input) == Str(input)

\* promptUserInput: null for a blank line
promptUserInput(input) ==
    IF StringTrim(input) = <<>> THEN Null ELSE Str(input)

\* `if (action)`: a string that is not empty, or an object
TruthyAction(action) == action.t = "object" \/ Truthy(action)

\* run, after a command: `if (action === "exit") break; continue;`
AfterCommand(action) ==
    IF action = Str(<<"exit">>) THEN "exited" ELSE "prompt"

\* run, one iteration up to the tool loop, for the line typed: a blank line
\* is dropped, a command is handled (clear truncates the history and seeds
\* it again, save asks the completion service for a title and waits for
\* it), any other line is appended as a user turn and the tool loop starts
ReadLine(input) ==
    /\ rpc = "prompt"
    /\ lastInput' = Str(input)
    /\ \E result \in HandlerResults(Invoked(input)) :
         LET userInput == promptUserInput(input)
             action == IF userInput = Null THEN Null
                       ELSE tryHandle(input, result)
             name == IF userInput = Null THEN <<>> ELSE Invoked(input)
         IN IF userInput = Null
            THEN UNCHANGED <<runnerVars, notebook>>
            ELSE IF TruthyAction(action)
            THEN /\ history' = IF name = <<"clear">> THEN clearHistory(history)
                               ELSE history
                 /\ notebook' = IF name = <<"clear">> THEN <<>> ELSE notebook
                 /\ rpc' = IF name = <<"save">> THEN "saving"
                           ELSE AfterCommand(action)
                 /\ UNCHANGED <<requestMessages, round, loopMsg, requests,
                                loopExit, returned, nInputs>>
            ELSE /\ nInputs < MaxInputs
                 /\ history' = appendUserMessage(history, input)
                 /\ nInputs' = nInputs + 1
                 /\ rpc' = "loop"
                 /\ round' = 0
                 /\ loopMsg' = NotYet
                 /\ requests' = 0
                 /\ loopExit' = "running"
                 /\ returned' = NotYet
                 /\ UNCHANGED <<requestMessages, notebook>>
    /\ UNCHANGED <<streamVars, dispatchVars, registryVars, configVars,
                   commandVars, storeVars, serviceVars>>

\* the save command, once the title request has been answered or has
\* failed: the file is written or the error printed, and run prompts again
SaveDone ==
    /\ rpc = "saving"
    /\ rpc' = "prompt"
    /\ UNCHANGED <<history, requestMessages, round, loopMsg, requests,
                   loopExit, returned, nInputs>>
    /\ UNCHANGED <<streamVars, dispatchVars, notebook, registryVars,
                   configVars, promptVars, commandVars, storeVars, serviceVars>>

\* run: a non-blank input that is no command is appended as a user turn and
\* the tool loop starts
UserInput ==
    /\ nInputs < MaxInputs
    /\ ReadLine(UserText(nInputs + 1))

\* run: the clear command truncates the history and seeds it again
ClearCommand == ReadLine(<<"/", "clear">>)

(***************************************************************************)
(* Notebook store (Notebook) and the handlers of its three tools.          *)
(* notesByKey is a set of entries with distinct keys, insertionOrder the   *)
(* array of keys.                                                          *)
(***************************************************************************)
\* Map.has, Map.get, Map.set and Map.delete on notesByKey
NotesHas(map, key) == \E e \in map : e.key = key
NotesGet(map, key) == (CHOOSE e \in map : e.key = key).note
NotesSet(map, key, note) ==
    {e \in map : e.key # key} \cup {[key |-> key, note |-> note]}
NotesDelete(map, key) == {e \in map : e.key # key}

\* insertionOrder.indexOf(key), 0 when absent
IndexOf(order, key) ==
    IF \E i \in DOMAIN order : order[i] = key
    THEN CHOOSE i \in DOMAIN order :
             order[i] = key /\ \A j \in 1..(i - 1) : order[j] # key
    ELSE 0

\* insertionOrder.splice(idx, 1)
SpliceOut(order, idx) ==
    SubSeq(order, 1, idx - 1) \o SubSeq(order, idx + 1, Len(order))

\* Notebook.add
NotebookAdd(map, order, note) ==
    IF NotesHas(map, note.key)
    THEN [notesByKey |-> map, insertionOrder |-> order, threw |-> TRUE]
    ELSE [notesByKey |-> NotesSet(map, note.key, note),
          insertionOrder |-> Append(order, note.key), threw |-> FALSE]

\* Notebook.update: the fields of the patch that are not null replace the
\* note's
NotebookUpdate(map, order, key, patch) ==
    IF ~NotesHas(map, key)
    THEN [notesByKey |-> map, insertionOrder |-> order, threw |-> TRUE]
    ELSE LET existing == NotesGet(map, key)
             next == [key |-> existing.key,
                      title |-> IF patch.title # Null THEN patch.title.v
                                ELSE existing.title,
                      content |-> IF patch.content # Null THEN patch.content.v
                                  ELSE existing.content,
                      tags |-> IF patch.tags # Null THEN patch.tags.v
                               ELSE existing.tags]
         IN [notesByKey |-> NotesSet(map, key, next),
             insertionOrder |-> order, threw |-> FALSE]

\* Notebook.delete leaving insertionOrder alone
NotebookDeleteKeepOrder(map, order, key) ==
    IF ~NotesHas(map, key)
    THEN [notesByKey |-> map, insertionOrder |-> order, threw |-> TRUE]
    ELSE [notesByKey |-> NotesDelete(map, key), insertionOrder |-> order,
          threw |-> FALSE]

\* Notebook.delete
NotebookDelete(map, order, key) ==
    IF ~NotesHas(map, key)
    THEN [notesByKey |-> map, insertionOrder |-> order, threw |-> TRUE]
    ELSE [notesByKey |-> NotesDelete(map, key),
          insertionOrder |-> IF IndexOf(order, key) >= 1
                             THEN SpliceOut(order, IndexOf(order, key))
                             ELSE order,
          threw |-> FALSE]

\* Notebook.clear
NotebookClear == [notesByKey |-> {}, insertionOrder |-> <<>>, threw |-> FALSE]

\* Notebook.toArray: the notes of the keys of insertionOrder, a key without
\* a note being skipped
RECURSIVE toArray(_, _)
toArray(map, order) ==
    IF order = <<>> THEN <<>>
    ELSE IF NotesHas(map, Head(order))
    THEN <<NotesGet(map, Head(order))>> \o toArray(map, Tail(order))
    ELSE toArray(map, Tail(order))

\* normalizeNonEmptyString: the trimmed string, "" for anything else
normalizeNonEmptyString(value) ==
    IF IsStr(value) THEN StringTrim(value.v) ELSE <<>>

\* normalizeOptionalString: undefined unless a string that is not blank
normalizeOptionalString(value) ==
    IF value = Null THEN Null
    ELSE IF ~IsStr(value) THEN Null
    ELSE IF StringTrim(value.v) = <<>> THEN Null
    ELSE Str(StringTrim(value.v))

\* normalizeTags: undefined unless an array; the strings of the array that
\* are not blank, trimmed
RECURSIVE TrimmedTags(_)
TrimmedTags(values) ==
    IF values = <<>> THEN <<>>
    ELSE IF ~IsStr(Head(values)) THEN TrimmedTags(Tail(values))
    ELSE IF StringTrim(Head(values).v) = <<>> THEN TrimmedTags(Tail(values))
    ELSE <<StringTrim(Head(values).v)>> \o TrimmedTags(Tail(values))
normalizeTags(value) ==
    IF value = Null THEN Null
    ELSE IF value.t # "array" THEN Null
    ELSE [t |-> "array", v |-> TrimmedTags(value.v)]

\* what a handler leaves and returns
Handled(map, order, output) ==
    [notesByKey |-> map, insertionOrder |-> order, threw |-> FALSE,
     output |-> output]

\* addNoteTool.handler
AddNoteHandler(map, order, args) ==
    LET key == normalizeNonEmptyString(args.key)
        title == normalizeNonEmptyString(args.title)
        content == normalizeNonEmptyString(args.content)
        tags == IF normalizeTags(args.tags) = Null THEN <<>>
                ELSE normalizeTags(args.tags).v
    IN IF key = <<>> THEN Handled(map, order, <<"Error: ", "'key' is required">>)
       ELSE IF title = <<>>
       THEN Handled(map, order, <<"Error: ", "'title' is required">>)
       ELSE IF content = <<>>
       THEN Handled(map, order, <<"Error: ", "'content' is required">>)
       ELSE IF NotesHas(map, key)
       THEN Handled(map, order,
                    <<"Error: ", "Key '">> \o key
                        \o <<"' already exists. Use update_note to modify.">>)
       ELSE LET after == NotebookAdd(map, order,
                             [key |-> key, title |-> title,
                              content |-> content, tags |-> tags])
            IN Handled(after.notesByKey, after.insertionOrder,
                       <<"Success: ", "Note '">> \o key \o <<"' added.">>)

\* updateNoteTool.handler
UpdateNoteHandler(map, order, args) ==
    LET key == normalizeNonEmptyString(args.key)
    IN IF key = <<>> THEN Handled(map, order, <<"Error: ", "'key' is required">>)
       ELSE IF ~NotesHas(map, key)
       THEN Handled(map, order,
                    <<"Error: ", "Note with key '">> \o key \o <<"' not found.">>)
       ELSE LET after == NotebookUpdate(map, order, key,
                             [title |-> normalizeOptionalString(args.title),
                              content |-> normalizeOptionalString(args.content),
                              tags |-> normalizeTags(args.tags)])
            IN Handled(after.notesByKey, after.insertionOrder,
                       <<"Success: ", "Note '">> \o key \o <<"' updated.">>)

\* deleteNoteTool.handler
DeleteNoteHandler(map, order, args) ==
    LET key == normalizeNonEmptyString(args.key)
    IN IF key = <<>> THEN Handled(map, order, <<"Error: ", "'key' is required">>)
       ELSE IF ~NotesHas(map, key)
       THEN Handled(map, order,
                    <<"Error: ", "Note with key '">> \o key \o <<"' not found.">>)
       ELSE LET after == NotebookDelete(map, order, key)
            IN Handled(after.notesByKey, after.insertionOrder,
                       <<"Success: ", "Note '">> \o key \o <<"' deleted.">>)

\* the notes, patches and tool arguments of the callers
NoteKeys == {<<"a">>, <<"b">>}
StoreNotes ==
    [key : NoteKeys, title : {<<"t">>}, content : {<<"c">>},
     tags : {<<>>, <<<<"g">>>>}]
Patches ==
    [title : {Null, Str(<<"u">>)}, content : {Null, Str(<<"d">>)},
     tags : {Null}]
KeyArgs == {Null, Num(1), Str(<<" ">>), Str(<<"a">>), Str(<<" ", "b">>)}
NoteArgs ==
    [key : KeyArgs, title : {Null, Str(<<"u", " ">>)},
     content : {Str(<<>>), Str(<<"d">>)},
     tags : {Null, [t |-> "array", v |-> <<Str(<<" ">>), Str(<<"g">>)>>]}]

NoCall == [t |-> "none"]
StoreIdle ==
    /\ notesByKey = {}
    /\ insertionOrder = <<>>
    /\ nbLast = NoCall

\* a call on the notebook: the store after it, and the call with its result
StoreCall(op, arg, after) ==
    /\ notesByKey' = after.notesByKey
    /\ insertionOrder' = after.insertionOrder
    /\ nbLast' = [t |-> "call", op |-> op, arg |-> arg, threw |-> after.threw,
                  output |-> IF "output" \in DOMAIN after THEN after.output
                             ELSE <<>>]
    /\ UNCHANGED <<streamVars, dispatchVars, runnerVars, notebook,
                   registryVars, configVars, promptVars, commandVars,
                   serviceVars>>

StoreAdd(note) ==
    StoreCall("add", note, NotebookAdd(notesByKey, insertionOrder, note))
StoreUpdate(key, patch) ==
    StoreCall("update", [key |-> key, patch |-> patch],
              NotebookUpdate(notesByKey, insertionOrder, key, patch))
StoreDelete(key) ==
    StoreCall("delete", key, NotebookDelete(notesByKey, insertionOrder, key))
StoreClear == StoreCall("clear", <<>>, NotebookClear)
ToolAddNote(args) ==
    StoreCall("add_note", args,
              AddNoteHandler(notesByKey, insertionOrder, args))
ToolUpdateNote(args) ==
    StoreCall("update_note", args,
              UpdateNoteHandler(notesByKey, insertionOrder, args))
ToolDeleteNote(args) ==
    StoreCall("delete_note", args,
              DeleteNoteHandler(notesByKey, insertionOrder, args))

(***************************************************************************)
(* Command registry (CommandSystem.register).  The lookup table maps names *)
(* and aliases to the normalized definition; commandsInOrder is the help   *)
(* order.                                                                  *)
(***************************************************************************)
\* this.lookup.has(key), this.lookup.get(key), this.lookup.set(key, def)
LookupHas(map, key) == \E e \in map : e.key = key
LookupSet(map, key, def) ==
    {e \in map : e.key # key} \cup {[key |-> key, def |-> def]}

\* a.trim().toLowerCase()
NormalName(text) == toLowerCase(StringTrim(text))

\* (def.aliases ?? []).map((a) => a.trim().toLowerCase()).filter(Boolean)
RECURSIVE NormalAliases(_)
NormalAliases(aliases) ==
    IF aliases = <<>> THEN <<>>
    ELSE IF NormalName(Head(aliases)) = <<>> THEN NormalAliases(Tail(aliases))
    ELSE <<NormalName(Head(aliases))>> \o NormalAliases(Tail(aliases))

\* the for loop over the aliases, from the i-th on: a taken alias throws
\* and leaves what has been set so far
RECURSIVE SetAliases(_, _, _)
SetAliases(cs, normalized, i) ==
    IF i > Len(normalized.aliases) THEN [cs EXCEPT !.threw = FALSE]
    ELSE IF LookupHas(cs.lookup, normalized.aliases[i])
    THEN [cs EXCEPT !.threw = TRUE]
    ELSE SetAliases([cs EXCEPT !.lookup =
                        LookupSet(cs.lookup, normalized.aliases[i], normalized)],
                    normalized, i + 1)

\* CommandSystem.register: the tables after the call and whether it threw
registerCommand(order, map, def) ==
    LET name == NormalName(def.name)
        same == [commandsInOrder |-> order, lookup |-> map, threw |-> TRUE]
    IN IF name = <<>> THEN same
       ELSE IF \E i \in DOMAIN name : name[i] = " " THEN same
       ELSE IF LookupHas(map, name) THEN same
       ELSE LET normalized == [name |-> name,
                               aliases |-> NormalAliases(def.aliases)]
            IN SetAliases([commandsInOrder |-> Append(order, normalized),
                           lookup |-> LookupSet(map, name, normalized),
                           threw |-> FALSE],
                          normalized, 1)

\* the definitions a caller may register
CommandWords ==
    {<<>>, <<"exit">>, <<"EXIT">>, <<" ", "q">>, <<"q", " ", "x">>}
AliasWords == {<<" ">>, <<"exit">>, <<"Q">>}
CommandDefs == [name : CommandWords, aliases : SeqsUpTo(AliasWords, MaxAliases)]

NoCommand == [t |-> "none"]
CommandIdle ==
    /\ commandsInOrder = <<>>
    /\ lookup = {}
    /\ cmdLast = NoCommand

\* one call of register
RegisterCommand(def) ==
    LET after == registerCommand(commandsInOrder, lookup, def)
    IN /\ commandsInOrder' = after.commandsInOrder
       /\ lookup' = after.lookup
       /\ cmdLast' = [t |-> "register", name |-> def.name,
                    threw |-> after.threw]
       /\ UNCHANGED <<streamVars, dispatchVars, runnerVars, notebook,
                      registryVars, configVars, promptVars, storeVars, serviceVars>>

\* runToolLoop, the start of a round: the request is built and issued to
\* the completion service
RequestModel ==
    /\ rpc = "loop"
    /\ RoundsLeft(round)
    /\ requestMessages' = buildRequestMessages(history)
    /\ history' = HistoryAfterBuild(history)
    /\ requests' = requests + 1
    /\ rpc' = "stream"
    /\ UNCHANGED <<round, loopMsg, loopExit, returned, nInputs>>
    /\ UNCHANGED <<streamVars, dispatchVars, notebook, registryVars, configVars, promptVars, commandVars, storeVars, serviceVars>>

\* runToolLoop, a round whose turn carries tool calls: the stream is
\* assembled, the content replaced by the reasoning text, the turn appended
\* and handleToolCalls entered
RoundToolCalls ==
    /\ rpc = "stream"
    /\ \E m \in SessionTurns :
           /\ m.tool_calls # <<>>
           /\ loopMsg' = m
           /\ history' = Append(history, TurnToAppend(m))
           /\ DispatchEnter(m.tool_calls)
    /\ rpc' = "tools"
    /\ UNCHANGED <<requestMessages, round, requests, loopExit, returned,
                   nInputs>>
    /\ UNCHANGED <<streamVars, notebook, registryVars, configVars, promptVars, commandVars, storeVars, serviceVars>>

\* runToolLoop, a round whose turn carries no tool call: the turn is
\* appended and its content returned
RoundFinal ==
    /\ rpc = "stream"
    /\ \E m \in SessionTurns :
           /\ m.tool_calls = <<>>
           /\ loopMsg' = m
           /\ history' = Append(history, TurnToAppend(m))
           /\ returned' = getFinalText(m)
    /\ loopExit' = "returned"
    /\ rpc' = "prompt"
    /\ UNCHANGED <<requestMessages, round, requests, nInputs>>
    /\ UNCHANGED <<streamVars, dispatchVars, notebook, registryVars, configVars, promptVars, commandVars, storeVars, serviceVars>>

\* the failing round committing the message under assembly
HistoryAfterFailureCommitted(h) == Append(h, InitialMessage)

\* what a failed round leaves in conversationHistory: the exception leaves
\* requestModelMessage before appendAssistantMessage is reached
HistoryAfterFailure(h) == h

\* runToolLoop, a round whose request or stream fails: the error leaves
\* runToolLoop and run reports it
RoundFail ==
    /\ rpc = "stream"
    /\ history' = HistoryAfterFailure(history)
    /\ loopExit' = "threw"
    /\ rpc' = "prompt"
    /\ UNCHANGED <<requestMessages, round, loopMsg, requests, returned,
                   nInputs>>
    /\ UNCHANGED <<streamVars, dispatchVars, notebook, registryVars, configVars, promptVars, commandVars, storeVars, serviceVars>>

\* appendToolResults after handleToolCalls has returned, and `continue`
AppendToolResults ==
    /\ rpc = "tools"
    /\ dpc = "done"
    /\ history' = PushToolTurns(history, results)
    /\ round' = round + 1
    /\ rpc' = "loop"
    /\ dpc' = "idle"
    /\ toolCalls' = <<>>
    /\ callIdx' = 1
    /\ results' = <<>>
    /\ running' = {}
    /\ outcomes' = <<>>
    /\ UNCHANGED <<requestMessages, loopMsg, requests, loopExit, returned,
                   nInputs>>
    /\ UNCHANGED <<streamVars, notebook, registryVars, configVars, promptVars, commandVars, storeVars, serviceVars>>

\* runToolLoop leaves its for loop: return null
LoopExhausted ==
    /\ rpc = "loop"
    /\ ~RoundsLeft(round)
    /\ returned' = Null
    /\ loopExit' = "exhausted"
    /\ rpc' = "prompt"
    /\ UNCHANGED <<history, requestMessages, round, loopMsg, requests, nInputs>>
    /\ UNCHANGED <<streamVars, dispatchVars, notebook, registryVars, configVars, promptVars, commandVars, storeVars, serviceVars>>

Init == StreamStart /\ DispatchIdle /\ RunnerIdle /\ RegistryIdle /\ ConfigIdle
    /\ PromptIdle
    /\ CommandIdle
    /\ StoreIdle
    /\ ServiceIdle

Next ==
    \/ UserInput
    \/ ClearCommand
    \/ RequestModel
    \/ RoundToolCalls
    \/ RoundFinal
    \/ RoundFail
    \/ DispatchCall /\ UNCHANGED <<streamVars, runnerVars, registryVars, configVars, promptVars, commandVars, storeVars, serviceVars>>
    \/ DispatchSettle(SessionOutcomes) /\ UNCHANGED <<streamVars, runnerVars, registryVars, configVars, promptVars, commandVars, storeVars, serviceVars>>
    \/ DispatchReturn /\ UNCHANGED <<streamVars, runnerVars, registryVars, configVars, promptVars, commandVars, storeVars, serviceVars>>
    \/ AppendToolResults
    \/ LoopExhausted

Spec == Init /\ [][Next]_vars

\* The steps of a running tool loop.  Every stream ends or fails, every
\* handler settles and the continuation of an await is run, so a step of
\* the loop that can be taken is taken.
LoopStep ==
    \/ RequestModel
    \/ RoundToolCalls
    \/ RoundFinal
    \/ RoundFail
    \/ DispatchCall /\ UNCHANGED <<streamVars, runnerVars, registryVars, configVars, promptVars, commandVars, storeVars, serviceVars>>
    \/ DispatchSettle(SessionOutcomes) /\ UNCHANGED <<streamVars, runnerVars, registryVars, configVars, promptVars, commandVars, storeVars, serviceVars>>
    \/ DispatchReturn /\ UNCHANGED <<streamVars, runnerVars, registryVars, configVars, promptVars, commandVars, storeVars, serviceVars>>
    \/ AppendToolResults
    \/ LoopExhausted

\* the runs of the tool loop, one per user message
LiveNext == UserInput \/ LoopStep

SpecLive == Init /\ [][LiveNext]_vars /\ WF_vars(LoopStep)

(***************************************************************************)
(* The composer on its own: buildRequestMessages applied to any history.   *)
(***************************************************************************)
CallX ==
    [id |-> <<"x">>, type |-> "function",
     function |-> [name |-> <<"ls">>, arguments |-> <<"{", "}">>]]
AssistantText ==
    [role |-> "assistant", content |-> Str(<<"a">>),
     reasoning_content |-> Null, tool_calls |-> <<>>]
AssistantCalls ==
    [role |-> "assistant", content |-> Null,
     reasoning_content |-> Null, tool_calls |-> <<CallX>>]
ToolX == [role |-> "tool", tool_call_id |-> <<"x">>, content |-> <<"src/a.ts">>]
Turns == {Instruction, UserTurn(<<"q">>), AssistantText, AssistantCalls, ToolX}

ComposeInit ==
    /\ StreamStart
    /\ PromptIdle
    /\ CommandIdle
    /\ StoreIdle
    /\ ServiceIdle
    /\ DispatchIdle
    /\ RegistryIdle
    /\ ConfigIdle
    /\ notebook = <<>>
    /\ history \in SeqsUpTo(Turns, MaxHistory)
    /\ requestMessages = <<>>
    /\ rpc = "compose"
    /\ round = 0
    /\ loopMsg = NotYet
    /\ requests = 0
    /\ loopExit = "none"
    /\ returned = NotYet
    /\ nInputs = 0

Compose ==
    /\ rpc = "compose"
    /\ requestMessages' = buildRequestMessages(history)
    /\ history' = HistoryAfterBuild(history)
    /\ rpc' = "composed"
    /\ UNCHANGED <<round, loopMsg, requests, loopExit, returned, nInputs>>
    /\ UNCHANGED <<streamVars, dispatchVars, notebook, registryVars, configVars, promptVars, commandVars, storeVars, serviceVars>>

ComposeNext == Compose

SpecCompose == ComposeInit /\ [][ComposeNext]_vars

(***************************************************************************)
(* The session with every kind of line typed at the prompt, the            *)
(* completion service answering every request with a turn without tool     *)
(* calls or with a failure.                                                *)
(***************************************************************************)
\* the lines typed besides the n-th message: blank lines, the bare prefix,
\* known and unknown commands, and lines that only look like commands
PromptInputs ==
    {<<>>, <<" ">>, <<"/">>, <<"/", " ">>, <<"/", "clear">>,
     <<"/", "Clear">>, <<"/", "exit">>, <<"/", "EXIT">>,
     <<"/", " ", "exit">>, <<"/", "exit", " ", "now">>, <<"/", "nope">>,
     <<"/", "exit", "s">>, <<"/", "save">>, <<"/", "tools">>, <<"/", "m">>,
     <<" ", "/", "exit">>, <<"exit">>}

PromptNext ==
    \/ \E input \in PromptInputs \cup {UserText(nInputs + 1)} : ReadLine(input)
    \/ SaveDone
    \/ RequestModel
    \/ RoundFinal
    \/ RoundFail

SpecPrompt == Init /\ [][PromptNext]_vars

(***************************************************************************)
(* The configuration service from the start of main on: any sequence of    *)
(* updates by the config command, reloads, subscriptions, requests and     *)
(* changes of the file from outside.                                       *)
(***************************************************************************)
ServiceInit ==
    /\ StreamStart
    /\ DispatchIdle
    /\ RunnerIdle
    /\ RegistryIdle
    /\ PromptIdle
    /\ CommandIdle
    /\ StoreIdle
    /\ stored = DEFAULT_STORED_CONFIG
    /\ env \in ServiceEnvs
    /\ snapshot = buildSnapshot(DEFAULT_STORED_CONFIG, env)
    /\ file \in StartFiles
    /\ listeners = <<>>
    /\ llm = NoRuntime
    /\ svcLast = NoServiceCall

ServiceNext ==
    \/ MainStart
    \/ \E written \in BOOLEAN : \E next \in Mutations(stored) :
           ServiceUpdate(next, written)
    \/ ServiceReload
    \/ \E listener \in {"main", "other"} : Subscribe(listener)
    \/ \E listener \in {"main", "other"} : Unsubscribe(listener)
    \/ FileEdited(Unreadable)
    \/ ServiceRequest

SpecService == ServiceInit /\ [][ServiceNext]_vars

(***************************************************************************)
(* The configuration store under the service: any sequence of updates by   *)
(* the config command, reloads and changes of the file from outside.       *)
(***************************************************************************)
StoreNext ==
    \/ MainStart
    \/ \E written \in BOOLEAN : \E next \in Mutations(stored) :
           ServiceUpdate(next, written)
    \/ ServiceReload
    \/ \E f \in RawFiles : FileEdited(f)

SpecStore == ServiceInit /\ [][StoreNext]_vars

(***************************************************************************)
(* The notebook on its own: any sequence of calls of its methods and of    *)
(* the handlers of its tools.                                              *)
(***************************************************************************)
NotebookNext ==
    \/ \E note \in StoreNotes : StoreAdd(note)
    \/ \E key \in NoteKeys, patch \in Patches : StoreUpdate(key, patch)
    \/ \E key \in NoteKeys : StoreDelete(key)
    \/ StoreClear
    \/ \E args \in NoteArgs : ToolAddNote(args)
    \/ \E args \in NoteArgs : ToolUpdateNote(args)
    \/ \E args \in NoteArgs : ToolDeleteNote(args)

SpecNotebook == Init /\ [][NotebookNext]_vars

(***************************************************************************)
(* The command registry on its own: any sequence of register calls.        *)
(***************************************************************************)
CommandsNext == \E def \in CommandDefs : RegisterCommand(def)

SpecCommands == Init /\ [][CommandsNext]_vars

(***************************************************************************)
(* The assembler on its own: consumeChatStream applied to any stream.      *)
(***************************************************************************)
StreamInit ==
    StreamStart /\ DispatchIdle /\ RunnerIdle /\ RegistryIdle /\ ConfigIdle
    /\ PromptIdle
    /\ CommandIdle
    /\ StoreIdle
    /\ ServiceIdle

StreamNext == StreamText \/ StreamCall \/ StreamCalls \/ StreamEnd \/ StreamError

SpecStream == StreamInit /\ [][StreamNext]_vars

(***************************************************************************)
(* The registry on its own: any sequence of register calls.                *)
(***************************************************************************)
RegistryInit == StreamStart /\ DispatchIdle /\ RunnerIdle /\ RegistryIdle /\ ConfigIdle
    /\ PromptIdle
    /\ CommandIdle
    /\ StoreIdle
    /\ ServiceIdle

RegistryNext == \E tool \in ToolDefs : Register(tool)

SpecRegistry == RegistryInit /\ [][RegistryNext]_vars

(***************************************************************************)
(* The configuration on its own: buildSnapshot applied to any stored       *)
(* configuration and environment.                                          *)
(***************************************************************************)
ConfigInit ==
    /\ StreamStart
    /\ PromptIdle
    /\ CommandIdle
    /\ StoreIdle
    /\ ServiceIdle
    /\ DispatchIdle
    /\ RunnerIdle
    /\ RegistryIdle
    /\ stored \in StoredConfigs
    /\ env \in Envs
    /\ snapshot = NotBuilt

ConfigNext == Reload

SpecConfig == ConfigInit /\ [][ConfigNext]_vars

(***************************************************************************)
(* The dispatcher on its own: handleToolCalls applied to any batch.        *)
(***************************************************************************)
DispatchInit ==
    /\ StreamStart
    /\ PromptIdle
    /\ CommandIdle
    /\ StoreIdle
    /\ ServiceIdle
    /\ RunnerIdle
    /\ RegistryIdle
    /\ ConfigIdle
    /\ dpc = "call"
    /\ toolCalls \in SeqsUpTo(Calls, MaxBatch)
    /\ callIdx = 1
    /\ results = <<>>
    /\ running = {}
    /\ outcomes = <<>>

DispatchNext ==
    \/ DispatchCall /\ UNCHANGED <<streamVars, runnerVars, registryVars, configVars, promptVars, commandVars, storeVars, serviceVars>>
    \/ DispatchSettle(HandlerOutcomes) /\ UNCHANGED <<streamVars, runnerVars, registryVars, configVars, promptVars, commandVars, storeVars, serviceVars>>
    \/ DispatchReturn /\ UNCHANGED <<streamVars, runnerVars, registryVars, configVars, promptVars, commandVars, storeVars, serviceVars>>

SpecDispatch == DispatchInit /\ [][DispatchNext]_vars

(***************************************************************************)
(* Properties of the stream assembler.                                     *)
(***************************************************************************)
\* the k-th smallest element of a finite set of numbers
KthSlot(S, k) == CHOOSE x \in S : Cardinality({y \in S : y < x}) = k - 1
SlotsSent == {sent.arrival[k] : k \in DOMAIN sent.arrival}
NullIfEmpty(text) == IF text = <<>> THEN Null ELSE Str(text)

\* C1: chunk-split invariance.  The finalized turn is determined by the
\* logical turn alone, that is by the concatenation of the fragments of each
\* kind (visible text, reasoning text, and each slot's name and argument
\* text, the id being carried whole by at most one fragment), whatever the
\* chunk boundaries were: two splits of one logical turn finalize alike.
C1_ChunkSplitInvariance ==
    phase = "done" =>
        /\ message.content = NullIfEmpty(sent.content.text)
        /\ message.reasoning_content = NullIfEmpty(sent.reasoning.text)
        /\ Len(message.tool_calls) = Cardinality(SlotsSent)
        /\ \A k \in DOMAIN message.tool_calls :
              LET s == KthSlot(SlotsSent, k)
                  call == message.tool_calls[k]
              IN /\ call.function.name = sent.slot[s].name.text
                 /\ call.function.arguments = sent.slot[s].args.text
                 /\ sent.slot[s].id.n = 0 => call.id = DefaultId(s)
                 /\ sent.slot[s].id.n = 1 => call.id = sent.slot[s].id.text

\* C1 witness: a finalized turn whose visible text came in two fragments and
\* that carries a call with argument text
C1_Witness ==
    /\ phase = "done"
    /\ sent.content.n >= 2 /\ Len(sent.content.text) >= 2
    /\ \E s \in SlotsSent : sent.slot[s].args.text # <<>>

\* C2: slot ordering invariance.  When a tool-call fragment was received, the
\* finalized invocation list has exactly one entry per slot seen, and its
\* k-th entry is the call of the k-th smallest slot index, whatever the
\* arrival order was.
C2_SlotOrdering ==
    (phase = "done" /\ sent.arrival # <<>>) =>
        /\ MapKeys(toolCallMap) = SlotsSent
        /\ Len(toolCallMap) = Cardinality(SlotsSent)
        /\ Len(message.tool_calls) = Cardinality(SlotsSent)
        /\ \A k \in DOMAIN message.tool_calls :
              message.tool_calls[k] =
                  toolCallMap[MapPos(toolCallMap, KthSlot(SlotsSent, k))].call

\* C2 witness: slot 1's first fragment arrived before slot 0's
C2_Witness ==
    /\ phase = "done"
    /\ sent.arrival = <<1, 0>>
    /\ message.tool_calls[1] # message.tool_calls[2]

\* C16 as claimed: null means nothing produced.  A finalized turn has a
\* null content exactly when no visible-text fragment was received, and a
\* null reasoning_content exactly when no reasoning fragment was received.
C16_Claimed ==
    phase = "done" =>
        /\ (message.content = Null) <=> (sent.content.n = 0)
        /\ (message.reasoning_content = Null) <=> (sent.reasoning.n = 0)

\* C17 as claimed: empty is not null.  A turn whose stream carried exactly
\* one visible-text fragment, the empty string, finalizes with content "".
C17_Claimed ==
    (phase = "done" /\ sent.content.n = 1 /\ sent.content.text = <<>>)
        => message.content = Str(<<>>)

\* C18: per-slot append-only merge.  At every point of the stream and for
\* every slot seen, the name and the argument text held for the slot are the
\* concatenations, in arrival order, of the name fragments and of the
\* argument fragments sent for that slot; fragments of other slots leave
\* them as they are.
C18_AppendOnlyMerge ==
    /\ MapKeys(toolCallMap) = SlotsSent
    /\ \A p \in DOMAIN toolCallMap :
          LET s == toolCallMap[p].key
              call == toolCallMap[p].call
          IN /\ call.function.name = sent.slot[s].name.text
             /\ call.function.arguments = sent.slot[s].args.text

\* C18 witness: two slots were opened and slot 0 got the argument fragments
\* "a" and "b" in that order, before the stream ended
C18_Witness ==
    /\ phase = "streaming"
    /\ SlotsSent = {0, 1}
    /\ sent.slot[0].args.n = 2
    /\ sent.slot[0].args.text = <<"a", "b">>
    /\ toolCallMap[MapPos(toolCallMap, 0)].call.function.arguments = <<"a", "b">>

\* C19 as claimed: the id of a slot is the default when no fragment carried
\* an id, and otherwise the id fragments of the slot put together in
\* arrival order.
C19_Claimed ==
    \A p \in DOMAIN toolCallMap :
        LET s == toolCallMap[p].key
            call == toolCallMap[p].call
        IN /\ sent.slot[s].id.n = 0 => call.id = DefaultId(s)
           /\ sent.slot[s].id.n > 0 => call.id = sent.slot[s].id.text

\* C19, amended: the first fragment of a slot establishes the id (the
\* default tool_call_<slot> when it carries none), and every later fragment
\* of the slot with a non-empty id replaces the id held so far.
C19_IdReplaced ==
    \A p \in DOMAIN toolCallMap :
        LET s == toolCallMap[p].key
            call == toolCallMap[p].call
        IN call.id = IF sent.slot[s].idLast = Null THEN DefaultId(s)
                     ELSE sent.slot[s].idLast.v

\* C19 witness: a finalized call whose slot received two fragments with an id
C19_Witness ==
    /\ phase = "done"
    /\ \E k \in DOMAIN message.tool_calls :
          LET s == KthSlot(SlotsSent, k)
          IN /\ sent.slot[s].id.n = 2
             /\ message.tool_calls[k].id = sent.slot[s].idLast.v

(***************************************************************************)
(* Properties of the dispatcher.                                           *)
(***************************************************************************)
StartsWithError(content) == Len(content) >= 1 /\ content[1] = "Error: "

\* a request fails when its argument text does not parse, its tool is not
\* registered, or its handler threw
Unparsable(call) == JsonParse(call.function.arguments).threw
Unregistered(call) == call.function.name \notin RegisteredTools

\* C3: the dispatcher never throws.  handleToolCalls never raises, and every
\* request handled whose argument text is unparsable, whose tool is not
\* registered or whose handler threw has a result starting with "Error: ".
C3_DispatcherNeverThrows ==
    /\ dpc # "raised"
    /\ \A i \in DOMAIN results :
          (Unparsable(toolCalls[i]) \/ Unregistered(toolCalls[i])
             \/ outcomes[i].threw)
              => StartsWithError(results[i].content)

\* C3 witness: a finished batch with an unparsable request and a request
\* whose handler threw
C3_Witness ==
    /\ dpc = "done"
    /\ \E i, j \in DOMAIN results :
          /\ Unparsable(toolCalls[i])
          /\ outcomes[j].threw

\* C4: result shape.  A finished dispatch of n requests returns n results,
\* the i-th carrying the i-th request's id.
C4_ResultShape ==
    dpc = "done" =>
        /\ Len(results) = Len(toolCalls)
        /\ \A i \in DOMAIN results : results[i].tool_call_id = toolCalls[i].id

\* C4 witness: a finished batch of two requests with different ids, one
\* failed and one succeeded
C4_Witness ==
    /\ dpc = "done"
    /\ Len(toolCalls) >= 2
    /\ toolCalls[1].id # toolCalls[2].id
    /\ StartsWithError(results[1].content)
    /\ ~StartsWithError(results[2].content)

\* C20: strictly sequential dispatch.  At most one handler is running at
\* any time; the handler running is that of the request the loop stands at,
\* and it was started only after every earlier request of the batch had its
\* result, so the handlers run one after the other in batch order.
C20_SequentialDispatch ==
    /\ Cardinality(running) <= 1
    /\ \A i \in running :
          /\ i = callIdx
          /\ dpc \in {"running", "raised"}
          /\ Len(results) = i - 1
          /\ Len(outcomes) = i - 1

\* C20 witness: the handler of the second request is running and the
\* handler of the first request has run and settled
C20_Witness ==
    /\ running = {2}
    /\ Len(outcomes) = 1
    /\ outcomes[1] # NotInvoked

\* C21: parse-failure isolation.  A request whose argument text does not
\* parse gets an error result of its own and its handler is never started;
\* the batch is not aborted: a dispatch finishes only with one result per
\* request, and in a finished dispatch the handler of every other request
\* (parsable, tool registered), before or after the unparsable one, has run.
C21_ParseFailureIsolation ==
    /\ dpc # "raised"
    /\ \A i \in running : ~Unparsable(toolCalls[i])
    /\ \A i \in DOMAIN results :
          Unparsable(toolCalls[i]) =>
              /\ outcomes[i] = NotInvoked
              /\ StartsWithError(results[i].content)
              /\ results[i].tool_call_id = toolCalls[i].id
    /\ dpc = "done" =>
          /\ Len(results) = Len(toolCalls)
          /\ \A j \in DOMAIN toolCalls :
                (~Unparsable(toolCalls[j]) /\ ~Unregistered(toolCalls[j])) =>
                    /\ outcomes[j] # NotInvoked
                    /\ results[j].tool_call_id = toolCalls[j].id

\* C21 witness: a finished batch whose first request is unparsable and was
\* answered without its handler, and whose second request was executed
C21_Witness ==
    /\ dpc = "done"
    /\ Len(toolCalls) = 2
    /\ Unparsable(toolCalls[1])
    /\ outcomes[1] = NotInvoked
    /\ outcomes[2] # NotInvoked
    /\ ~StartsWithError(results[2].content)

\* the argument texts that are JSON
JsonTexts == {<<"1">>, <<"null">>, <<"{", "}">>, <<"{", JsonMember, "}">>,
              <<"{", NoteMember, "}">>}

\* C36: an empty argument text is a parse failure.  A request whose argument
\* text is empty is answered with "Error: invalid JSON arguments for tool
\* '<name>': ..." and its handler is never started, registered tool or not;
\* a handler is started only for an argument text that is JSON.
C36_EmptyArgumentsFail ==
    /\ \A i \in DOMAIN results :
          toolCalls[i].function.arguments = <<>> =>
              /\ outcomes[i] = NotInvoked
              /\ Len(results[i].content) >= 4
              /\ SubSeq(results[i].content, 1, 2)
                    = <<"Error: ", "invalid JSON arguments for tool '">>
              /\ SubSeq(results[i].content, 3, 2 + Len(toolCalls[i].function.name))
                    = toolCalls[i].function.name
    /\ \A i \in running : toolCalls[i].function.arguments \in JsonTexts
    /\ \A i \in DOMAIN outcomes :
          outcomes[i] # NotInvoked =>
              toolCalls[i].function.arguments \in JsonTexts

\* C36 witness: a finished batch whose first request is for the registered
\* tool ls with an empty argument text, answered with the parse error, and
\* whose second request reached its handler
C36_Witness ==
    /\ dpc = "done"
    /\ Len(toolCalls) = 2
    /\ toolCalls[1].function.name = <<"ls">>
    /\ toolCalls[1].function.arguments = <<>>
    /\ results[1].content[2] = "invalid JSON arguments for tool '"
    /\ outcomes[2] # NotInvoked

(***************************************************************************)
(* Properties of the composer.                                             *)
(***************************************************************************)
Synthetic == DynamicSystem(history)
HasUser(h) == \E i \in DOMAIN h : h[i].role = "user"
\* h with x put in so that exactly n turns of h come before it
InsertedAfter(h, n, x) == [k \in 1..(Len(h) + 1) |->
                             IF k <= n THEN h[k]
                             ELSE IF k = n + 1 THEN x ELSE h[k - 1]]
ExampleA == <<Instruction, UserTurn(<<"q">>)>>
ExampleB == <<Instruction, UserTurn(<<"q">>), AssistantCalls, ToolX>>

\* C7: when the most recent user turn is followed by later turns, the
\* synthetic block comes immediately after that user turn and before
\* everything that follows it; [system, user, assistant(calls=[x]), tool(x)]
\* composes to [system, user, synthetic, assistant(calls=[x]), tool(x)].
C7_InsertAfterUser ==
    (rpc = "composed" /\ HasUser(history) /\ LastUser(history) < Len(history)) =>
        /\ requestMessages = InsertedAfter(history, LastUser(history), Synthetic)
        /\ history = ExampleB =>
              requestMessages = <<Instruction, UserTurn(<<"q">>), Synthetic,
                                  AssistantCalls, ToolX>>

\* C7 witness: the example history has been composed
C7_Witness == rpc = "composed" /\ history = ExampleB

\* C8: when the most recent user turn is the last turn, the synthetic block
\* comes immediately before it, for a history of any length (also a lone
\* user turn); [system, user] composes to [system, synthetic, user].
C8_InsertBeforeLastUser ==
    (rpc = "composed" /\ history # <<>>
        /\ history[Len(history)].role = "user") =>
        /\ requestMessages = InsertedAfter(history, Len(history) - 1, Synthetic)
        /\ history = ExampleA =>
              requestMessages = <<Instruction, Synthetic, UserTurn(<<"q">>)>>

\* C8 witness: the example history and a lone user turn have been composed
C8_Witness ==
    rpc = "composed" /\ history = ExampleA /\ requestMessages[2] = Synthetic

\* C9 as claimed: without any user turn the synthetic block comes right
\* after the leading instruction turn if there is one, else at position 0.
C9_Claimed ==
    (rpc = "composed" /\ ~HasUser(history)) =>
        requestMessages =
            InsertedAfter(history,
                          IF history # <<>> /\ history[1].role = "system"
                          THEN 1 ELSE 0,
                          Synthetic)

\* C9 amended: without any user turn, a history of at most one turn gets the
\* synthetic block after the instruction turn if that is its only turn and
\* at position 0 otherwise; a history of two or more turns gets it appended
\* at the end ([system, assistant] composes to [system, assistant, synthetic]).
C9_NoUserTurn ==
    (rpc = "composed" /\ ~HasUser(history)) =>
        requestMessages =
            InsertedAfter(history,
                          IF Len(history) >= 2 THEN Len(history)
                          ELSE IF history # <<>> /\ history[1].role = "system"
                          THEN 1 ELSE 0,
                          Synthetic)

\* C9 witness: [system, assistant] has been composed, the block at the end
C9_Witness ==
    /\ rpc = "composed"
    /\ history = <<Instruction, AssistantText>>
    /\ requestMessages = <<Instruction, AssistantText, Synthetic>>

\* C10: an empty history composes to [synthetic]; a history that is just
\* the instruction turn composes to [instruction, synthetic].
C10_EdgeCases ==
    rpc = "composed" =>
        /\ history = <<>> => requestMessages = <<Synthetic>>
        /\ history = <<Instruction>> =>
              requestMessages = <<Instruction, Synthetic>>

\* C10 witness: the instruction-only history has been composed
C10_Witness ==
    rpc = "composed" /\ history = <<Instruction>> /\ Len(requestMessages) = 2

(***************************************************************************)
(* Properties of the session.                                              *)
(***************************************************************************)
HasCalls(m) == m.role = "assistant" /\ m.tool_calls # <<>>
\* position of the nearest assistant turn with invocations before i, else 0
RECURSIVE CallerOf(_, _)
CallerOf(h, i) ==
    IF i <= 1 THEN 0
    ELSE IF HasCalls(h[i - 1]) THEN i - 1
    ELSE CallerOf(h, i - 1)
\* the positions in the calls of turn a of the invocations with this id
MatchesOf(h, a, id) ==
    IF a = 0 THEN {}
    ELSE {k \in DOMAIN h[a].tool_calls : h[a].tool_calls[k].id = id}
ToolTurns(h) == {i \in DOMAIN h : h[i].role = "tool"}

\* C5: history pairing.  Every tool turn of the history carries the id of
\* exactly one invocation of the nearest preceding assistant turn that has
\* invocations, and the tool turns answering one assistant turn come in the
\* order of its invocations.  (The completion service gives the calls of
\* one turn different ids.)
C5_HistoryPairing ==
    LET caller == [i \in ToolTurns(history) |-> CallerOf(history, i)]
        match == [i \in ToolTurns(history) |->
                    MatchesOf(history, caller[i], history[i].tool_call_id)]
    IN  /\ \A i \in ToolTurns(history) :
              caller[i] # 0 /\ Cardinality(match[i]) = 1
        /\ \A i, j \in ToolTurns(history) :
              (i < j /\ caller[i] = caller[j])
                  => \A k \in match[i] : \A l \in match[j] : k < l

\* C5 witness: a batch of two calls has been answered and a later user turn
\* follows its tool turns
C5_Witness ==
    \E i \in ToolTurns(history) :
        /\ i + 1 \in ToolTurns(history)
        /\ CallerOf(history, i) = i - 1
        /\ i + 2 \in DOMAIN history
        /\ history[i + 2].role = "user"

IsSynthetic(m) == m.role = "system" /\ m.content.v[1] = "=== env ==="

\* C6: the composer never splits a call/result run.  In every request built
\* in a session, each tool turn is immediately preceded by an assistant turn
\* with invocations or by another tool turn, never by the synthetic block,
\* and the assistant turn with invocations is not followed by the block.
C6_NoSplit ==
    \A i \in DOMAIN requestMessages :
        /\ requestMessages[i].role = "tool" =>
              /\ i > 1
              /\ \/ requestMessages[i - 1].role = "tool"
                 \/ HasCalls(requestMessages[i - 1])
        /\ (IsSynthetic(requestMessages[i]) /\ i > 1 /\ i < Len(requestMessages))
              => ~(HasCalls(requestMessages[i - 1])
                     /\ requestMessages[i + 1].role = "tool")

\* C6 witness: a request built from a history that holds an answered batch:
\* the block stands between the user turn and the assistant turn
C6_Witness ==
    \E i \in DOMAIN requestMessages :
        /\ IsSynthetic(requestMessages[i])
        /\ i + 2 \in DOMAIN requestMessages
        /\ requestMessages[i - 1].role = "user"
        /\ HasCalls(requestMessages[i + 1])
        /\ requestMessages[i + 2].role = "tool"

\* the messages of a request with the status block taken out
WithoutSynthetic(messages) == SelectSeq(messages, LAMBDA m : ~IsSynthetic(m))

\* C11: composer frame condition.  The step that builds a request leaves
\* the history as it was; the request is one message longer than the
\* history and is the history again once the status block is deleted; and
\* the history never holds the status block.
C11_ComposerFrame ==
    /\ [][(rpc = "loop" /\ rpc' = "stream") =>
            /\ history' = history
            /\ Len(requestMessages') = Len(history) + 1
            /\ WithoutSynthetic(requestMessages') = history]_vars
    /\ [](\A i \in DOMAIN history : ~IsSynthetic(history[i]))

\* C11 witness: a request was built in the middle of a tool loop, from a
\* history that already holds tool turns
C11_Witness ==
    /\ rpc = "stream"
    /\ round >= 1
    /\ ToolTurns(history) # {}
    /\ Len(requestMessages) = Len(history) + 1

\* C12: a tool-free turn ends the loop.  When the turn assembled in a round
\* carries no invocation, that very turn is appended to the history, its
\* content field is what runToolLoop returns, no request is issued and no
\* tool is dispatched; the loop has ended.
C12_ToolFreeTurnEnds ==
    /\ [][(rpc = "stream" /\ rpc' # "stream" /\ loopExit' # "threw"
              /\ loopMsg'.tool_calls = <<>>) =>
            /\ history' = Append(history, loopMsg')
            /\ returned' = loopMsg'.content
            /\ loopExit' = "returned"
            /\ rpc' = "prompt"
            /\ requests' = requests
            /\ requestMessages' = requestMessages
            /\ dpc' = "idle" /\ running' = {} /\ results' = <<>>]_vars
    /\ [](loopExit = "returned" =>
            /\ rpc = "prompt"
            /\ dpc = "idle"
            /\ loopMsg.tool_calls = <<>>
            /\ returned = loopMsg.content)

\* C12 witness: after a round of tool calls, a tool-free turn with visible
\* text ended the loop
C12_Witness ==
    /\ loopExit = "returned"
    /\ round >= 1
    /\ returned = Str(<<"a">>)
    /\ history[Len(history)] = loopMsg

\* C13 as claimed: the value returned when the rounds are exhausted (null)
\* is never what a run that ended with a tool-free turn returns.
C13_Claimed == loopExit = "returned" => returned # Null

\* C14: round budget.  A run of the tool loop issues one request per round
\* and at most MaxToolRounds of them; a run whose rounds all carried
\* invocations ends after exactly MaxToolRounds rounds and requests,
\* returning null.
C14_RoundBudget ==
    /\ requests <= MaxToolRounds
    /\ rpc = "loop" => requests = round
    /\ rpc \in {"stream", "tools"} => requests = round + 1
    /\ loopExit = "exhausted" =>
          /\ round = MaxToolRounds
          /\ requests = MaxToolRounds
          /\ returned = Null

\* C14 witness: a run has ended by exhausting its rounds
C14_Witness ==
    /\ loopExit = "exhausted"
    /\ rpc = "prompt"
    /\ requests = MaxToolRounds
    /\ Cardinality({i \in DOMAIN history : HasCalls(history[i])}) >= MaxToolRounds

\* C15: loop termination.  Every run of the tool loop that has started ends,
\* and it ends in one of three ways: a final text returned, null returned
\* after the rounds are exhausted, or a failure of the request propagated.
C15_LoopTerminates ==
    /\ (loopExit = "running") ~>
            (rpc = "prompt" /\ loopExit \in {"returned", "exhausted", "threw"})
    /\ [](rpc = "prompt" =>
            loopExit \in {"none", "returned", "exhausted", "threw"})
    /\ [](rpc # "prompt" => loopExit = "running")

\* C15 witness: a run that went through a round of tool calls ended with a
\* failed request
C15_Witness ==
    /\ rpc = "prompt"
    /\ loopExit = "threw"
    /\ round >= 1

(***************************************************************************)
(* Properties of the registry.                                             *)
(***************************************************************************)
Blank(text) == \A i \in DOMAIN text : text[i] = " "
Blanks(n) == [i \in 1..n |-> " "]
\* text is name with white space around it, name having none at its ends
Pads(text, name) ==
    /\ name # <<>>
    /\ name[1] # " "
    /\ name[Len(name)] # " "
    /\ \E a, b \in 0..Len(text) : text = Blanks(a) \o name \o Blanks(b)
Taken(map, text) == \E i \in DOMAIN map : Pads(text, map[i].name)

\* C22: registry uniqueness.  A register call fails exactly when the name,
\* white space at its ends apart, is empty or already registered, and a failed
\* call leaves the registry unchanged; a successful call adds the descriptor
\* at the end; no call replaces or moves a descriptor registered before, and
\* the registry never holds two descriptors of the same name.
C22_RegistryUniqueness ==
    /\ [][regLast' # regLast =>
            /\ regLast'.threw <=>
                    (Blank(regLast'.tool.name) \/ Taken(tools, regLast'.tool.name))
            /\ regLast'.threw => tools' = tools
            /\ ~regLast'.threw =>
                    /\ Len(tools') = Len(tools) + 1
                    /\ Pads(regLast'.tool.name, tools'[Len(tools')].name)
                    /\ tools'[Len(tools')].handler = regLast'.tool.handler
            /\ \A i \in DOMAIN tools :
                    i \in DOMAIN tools' /\ tools'[i] = tools[i]]_vars
    /\ [](\A i, j \in DOMAIN tools : tools[i].name = tools[j].name => i = j)

\* C22 witness: with two tools registered, registering a name already
\* taken, written with white space around it and with another handler, has
\* failed
C22_Witness ==
    /\ regLast # NoRegister
    /\ regLast.threw
    /\ regLast.tool.name # <<>>
    /\ \E i \in DOMAIN tools :
          /\ Pads(regLast.tool.name, tools[i].name)
          /\ regLast.tool.name # tools[i].name
          /\ regLast.tool.handler # tools[i].handler
    /\ Len(tools) = 2

(***************************************************************************)
(* Properties of the configuration.                                        *)
(***************************************************************************)
\* the variable of the environment behind a field
EnvName(f) ==
    CASE f = "apiKey" -> "TOY_API_KEY"
      [] f = "baseUrl" -> "TOY_BASE_URL"
      [] f = "model" -> "TOY_MODEL"
      [] f = "fastModel" -> "TOY_FAST_MODEL"
\* the active profile: the stored profile carrying the active id, if any
ActiveProfiles ==
    {stored.profiles[i] : i \in {j \in DOMAIN stored.profiles :
                                    stored.profiles[j].id = stored.activeProfileId}}
\* a value is set when it is a string with something else than white space
IsSet(x) == x # Null /\ ~Blank(x.v)

\* C30: configuration priority.  For each of apiKey, baseUrl, model and
\* fastModel the snapshot carries the active profile's field when it is set,
\* with source "profile"; otherwise the TOY_* variable of the environment
\* (white space around it dropped) when that is set, with source "env";
\* otherwise no value, with source "missing".  With no active profile every
\* field comes from the environment or is missing.
C30_ConfigPriority ==
    snapshot # NotBuilt =>
        \A f \in ConfigFields :
            LET value == snapshot.effective[f]
                source == snapshot.effective.sources[f]
                raw == env[EnvName(f)]
            IN /\ \A p \in ActiveProfiles :
                     IsSet(p[f]) => value = p[f] /\ source = "profile"
               /\ (\A p \in ActiveProfiles : ~IsSet(p[f])) =>
                     IF IsSet(raw)
                     THEN /\ source = "env"
                          /\ value # Null
                          /\ Pads(raw.v, value.v)
                     ELSE value = Null /\ source = "missing"
               /\ stored.activeProfileId = Null => source \in {"env", "missing"}

\* C30 witness: a snapshot built with an active profile, in which one field
\* comes from the profile although the environment sets it too, one comes
\* from the environment and one is missing
C30_Witness ==
    /\ snapshot # NotBuilt
    /\ stored.activeProfileId = Str(<<"a">>)
    /\ snapshot.effective.sources["apiKey"] = "profile"
    /\ IsSet(env.TOY_API_KEY)
    /\ snapshot.effective.apiKey # trim(env.TOY_API_KEY)
    /\ snapshot.effective.sources["model"] = "env"
    /\ snapshot.effective.sources["fastModel"] = "missing"

(***************************************************************************)
(* Properties of the tool loop and the session, continued.                 *)
(***************************************************************************)
\* C23: reasoning becomes content.  The step that ends the streaming of a
\* round appends one assistant turn; it carries the assembled turn's role,
\* reasoning text and tool calls; when the assembled turn has tool calls its
\* content is the reasoning text (null when there is none), not the visible
\* text, and when it has none its content is the one assembled.
C23_ReasoningBecomesContent ==
    [][(rpc = "stream" /\ history' # history) =>
          LET turn == history'[Len(history')]
              m == loopMsg'
          IN /\ Len(history') = Len(history) + 1
             /\ turn.role = m.role
             /\ turn.tool_calls = m.tool_calls
             /\ turn.reasoning_content = m.reasoning_content
             /\ turn.content = IF m.tool_calls # <<>> THEN m.reasoning_content
                               ELSE m.content]_vars

\* C23 witness: a turn with tool calls, visible text and another reasoning
\* text has just been appended with the reasoning text as content
C23_Witness ==
    /\ rpc = "tools"
    /\ dpc = "call"
    /\ results = <<>>
    /\ loopMsg.tool_calls # <<>>
    /\ loopMsg.content # Null
    /\ loopMsg.reasoning_content # Null
    /\ loopMsg.content # loopMsg.reasoning_content
    /\ history[Len(history)].content = loopMsg.reasoning_content

\* C24: fold-back ordering.  While a batch is dispatched the history ends
\* with the assistant turn that carries it; the history grows again only
\* when the dispatch is done, by one tool turn per request, in request order,
\* each with its request's id and its result's text; and the request built
\* in a later round of the loop ends with that assistant turn followed by all
\* of its tool turns.
C24_FoldBackOrdering ==
    /\ [](rpc = "tools" =>
            /\ HasCalls(history[Len(history)])
            /\ history[Len(history)].tool_calls = toolCalls)
    /\ [][(rpc = "tools" /\ history' # history) =>
            /\ dpc = "done"
            /\ rpc' = "loop"
            /\ Len(results) = Len(toolCalls)
            /\ Len(history') = Len(history) + Len(toolCalls)
            /\ SubSeq(history', 1, Len(history)) = history
            /\ \A k \in DOMAIN toolCalls :
                  history'[Len(history) + k] =
                      [role |-> "tool", tool_call_id |-> toolCalls[k].id,
                       content |-> results[k].content]]_vars
    /\ [][(rpc = "loop" /\ rpc' = "stream" /\ round >= 1) =>
            LET a == CallerOf(history, Len(history) + 1)
                n == Len(history) - a
                req == requestMessages'
                j == Len(req) - n
            IN /\ a # 0
               /\ n = Len(history[a].tool_calls)
               /\ \A k \in 1..n :
                     /\ history[a + k].role = "tool"
                     /\ history[a + k].tool_call_id = history[a].tool_calls[k].id
               /\ j >= 1
               /\ \A k \in 0..n : req[j + k] = history[a + k]]_vars

\* C24 witness: the request of the second round has been built and ends
\* with the first round's assistant turn and its two tool turns
C24_Witness ==
    /\ rpc = "stream"
    /\ round = 1
    /\ LET n == Len(requestMessages)
       IN /\ n >= 3
          /\ HasCalls(requestMessages[n - 2])
          /\ Len(requestMessages[n - 2].tool_calls) = 2
          /\ requestMessages[n - 1].role = "tool"
          /\ requestMessages[n].role = "tool"
          /\ requestMessages[n - 1].tool_call_id # requestMessages[n].tool_call_id
          /\ requestMessages[n - 1].tool_call_id
                = requestMessages[n - 2].tool_calls[1].id

\* a request of the batch under dispatch has failed: its argument text is
\* unparsable, its tool is not registered, or its handler threw
FailedCall(k) ==
    \/ Unparsable(toolCalls[k])
    \/ Unregistered(toolCalls[k])
    \/ outcomes[k].threw

\* C25: tool-level failures do not end the loop.  A dispatch never raises
\* and the loop is still running all through it; every failed request has a
\* result starting with "Error: ", which becomes the content of its tool
\* turn; after the batch the loop is still running and, with rounds left,
\* its next step issues the next request; an error is reported to the user
\* only by a step that leaves the streaming of a round.
C25_ToolFailuresContinue ==
    /\ [](rpc = "tools" => dpc # "raised" /\ loopExit = "running")
    /\ [][(rpc = "tools" /\ rpc' # "tools") =>
            /\ rpc' = "loop"
            /\ loopExit' = "running"
            /\ round' = round + 1
            /\ \A k \in DOMAIN toolCalls :
                  /\ FailedCall(k) => StartsWithError(results[k].content)
                  /\ history'[Len(history) + k].content = results[k].content
                  /\ history'[Len(history) + k].tool_call_id = toolCalls[k].id]_vars
    /\ [][(rpc = "loop" /\ round >= 1 /\ round < MaxToolRounds) =>
            rpc' = "stream" /\ loopExit' = "running"]_vars
    /\ [][(loopExit' = "threw" /\ loopExit # "threw") => rpc = "stream"]_vars

\* C25 witness: after a batch whose two requests both failed (unknown tool,
\* handler error) the error texts are tool turns of the history and the
\* next request has been issued
C25_Witness ==
    /\ rpc = "stream"
    /\ round = 1
    /\ loopExit = "running"
    /\ Len(history) >= 3
    /\ history[Len(history)].role = "tool"
    /\ history[Len(history) - 1].role = "tool"
    /\ StartsWithError(history[Len(history)].content)
    /\ StartsWithError(history[Len(history) - 1].content)
    /\ history[Len(history)].content # history[Len(history) - 1].content

\* C26: a transport failure abandons the round.  Building and issuing the
\* request of a round leaves the history as it was, and so does the step in
\* which the request or its stream fails: no assistant turn and no tool turn
\* of the round is added and no tool is dispatched; the error is reported
\* and the session is back at its prompt, where the next input is accepted.
C26_TransportFailureAbandons ==
    /\ [][(rpc = "loop" /\ rpc' = "stream") => history' = history]_vars
    /\ [][(rpc = "stream" /\ loopExit' = "threw") =>
            /\ history' = history
            /\ rpc' = "prompt"
            /\ dpc' = "idle"
            /\ returned' = NotYet]_vars
    /\ [][(rpc = "stream" /\ history' = history) => loopExit' = "threw"]_vars
    /\ [](loopExit = "threw" =>
            /\ rpc = "prompt"
            /\ nInputs < MaxInputs => ENABLED UserInput)

\* C26 witness: the request of the second round of a loop has failed; the
\* history ends with the tool turns of the first round and the session is at
\* its prompt
C26_Witness ==
    /\ loopExit = "threw"
    /\ rpc = "prompt"
    /\ round = 1
    /\ history[Len(history)].role = "tool"
    /\ nInputs < MaxInputs

\* C27: the history is append-only.  Every step of the session except the
\* clear command (the only step from the prompt to the prompt that changes
\* the history) keeps every turn of the history where it is and as it is,
\* and adds turns only at the end.
C27_AppendOnly ==
    [][(rpc # "prompt" \/ rpc' # "prompt") =>
          /\ Len(history') >= Len(history)
          /\ \A i \in DOMAIN history : history'[i] = history[i]]_vars

\* C27 witness: a history that has grown by user turns, assistant turns and
\* tool turns over two inputs
C27_Witness ==
    /\ nInputs = 2
    /\ rpc = "prompt"
    /\ loopExit = "returned"
    /\ Cardinality(ToolTurns(history)) >= 2
    /\ Cardinality({i \in DOMAIN history : history[i].role = "user"}) = 2
    /\ history[Len(history)].role = "assistant"

\* the history a session starts with: the static instruction turn alone
Seed == <<[role |-> "system", content |-> Str(SYSTEM_PROMPT)]>>

\* C28: reset to seed.  The session starts with the static instruction turn
\* as its whole history; the clear command, the only step from the prompt to
\* the prompt, leaves exactly that turn whatever the history was; and
\* clearing the history of any state gives the seed, on which clearing again
\* changes nothing.
C28_ResetToSeed ==
    /\ [][(rpc = "prompt" /\ rpc' = "prompt") => history' = Seed]_vars
    /\ [](nInputs = 0 => history = Seed)
    /\ [](/\ clearHistory(history) = Seed
          /\ clearHistory(clearHistory(history)) = clearHistory(history))

\* C28 witness: after two inputs, one of them answered with tool calls, the
\* history is the seed again
C28_Witness ==
    /\ nInputs = 2
    /\ rpc = "prompt"
    /\ loopExit = "returned"
    /\ round >= 1
    /\ history = Seed

\* the text of the most recent user turn of h, nothing when there is none
RecentQueries(h) ==
    {h[i].content.v : i \in {j \in DOMAIN h :
                                /\ h[j].role = "user"
                                /\ \A k \in (j + 1)..Len(h) : h[k].role # "user"}}
\* the notes the tool turns of h report as added
NoteAdded(h) ==
    \E i \in DOMAIN h :
        /\ h[i].role = "tool"
        /\ h[i].content = <<"Success: Note '", "plan", "' added.">>
\* the status text for a query and for the notes reported as added
BlockText(query, added) ==
    <<"=== env ===", "[User Last Query]: ">> \o query \o <<"=== notebook ===">>
        \o (IF added
            THEN <<"[", "{ key: ", "plan", ", title: ", "t", ", content: ", "c",
                   " }", "]">>
            ELSE <<"[]">>)

\* C29: status block freshness.  Every request built in a session holds
\* exactly one status block; its last-user-query is the text of the most
\* recent user turn of the history at that moment, which is the input typed
\* last, and its notebook snapshot lists exactly the notes that the tool
\* handlers run so far (since the last clear) have added; the notebook
\* itself holds those notes.
C29_StatusBlockFresh ==
    /\ [][(rpc = "loop" /\ rpc' = "stream") =>
            LET req == requestMessages'
                blocks == {j \in DOMAIN req : IsSynthetic(req[j])}
            IN /\ Cardinality(blocks) = 1
               /\ RecentQueries(history) = {UserText(nInputs)}
               /\ \A j \in blocks :
                     req[j].content =
                         Str(BlockText(UserText(nInputs), NoteAdded(history)))]_vars
    /\ [](rpc \in {"prompt", "loop", "stream"} =>
            (notebook # <<>>) = NoteAdded(history))

\* C29 witness: the first request after the second input has been built;
\* a note was added while the first input was answered; the block carries
\* the second query and the note
C29_Witness ==
    /\ rpc = "stream"
    /\ nInputs = 2
    /\ round = 0
    /\ notebook # <<>>
    /\ \E j \in DOMAIN requestMessages :
          requestMessages[j].content = Str(BlockText(<<"q", "2">>, TRUE))

\* C34: single seed.  In every state of the session the history is not
\* empty, its first turn is the static instruction turn, and no later turn
\* has the role system.
C34_SingleSeed ==
    /\ Len(history) >= 1
    /\ history[1] = [role |-> "system", content |-> Str(SYSTEM_PROMPT)]
    /\ \A i \in 2..Len(history) : history[i].role # "system"

\* C34 witness: after an input, a clear command and a second input answered
\* with tool calls and a failed round, the history holds one user turn and
\* tool turns behind the seed
C34_Witness ==
    /\ nInputs = 2
    /\ loopExit = "threw"
    /\ Cardinality({i \in DOMAIN history : history[i].role = "user"}) = 1
    /\ history[2] = UserTurn(<<"q", "2">>)
    /\ ToolTurns(history) # {}

\* the assistant turns with calls that follow the most recent user turn of h
BatchesOfLoop(h) ==
    {a \in DOMAIN h : /\ HasCalls(h[a])
                      /\ \A k \in a..Len(h) : h[k].role # "user"}
\* turn a of h is followed by one tool turn per call of it
Answered(h, a) ==
    /\ a + Len(h[a].tool_calls) <= Len(h)
    /\ \A k \in 1..Len(h[a].tool_calls) :
          /\ h[a + k].role = "tool"
          /\ h[a + k].tool_call_id = h[a].tool_calls[k].id

\* C35: the last permitted round still executes its tools.  When the loop
\* ends by exhaustion, the history holds MaxToolRounds assistant turns with
\* calls since the user turn, every one of them followed by its tool turns,
\* the last of them by the tool turns that end the history, and the dispatcher
\* is idle; whenever the session is at its prompt or between two rounds, no
\* assistant turn with calls is without its tool turns.
C35_LastRoundExecutes ==
    /\ [][(loopExit' = "exhausted" /\ loopExit # "exhausted") =>
            LET h == history'
                last == CallerOf(h, Len(h) + 1)
            IN /\ returned' = Null
               /\ dpc' = "idle"
               /\ Cardinality(BatchesOfLoop(h)) = MaxToolRounds
               /\ last \in BatchesOfLoop(h)
               /\ last + Len(h[last].tool_calls) = Len(h)
               /\ \A a \in BatchesOfLoop(h) : Answered(h, a)]_vars
    /\ [](rpc \in {"prompt", "loop"} =>
            \A a \in DOMAIN history :
                HasCalls(history[a]) => Answered(history, a))

\* C35 witness: a loop has ended by exhaustion and the history ends with
\* the tool turns of its last batch
C35_Witness ==
    /\ loopExit = "exhausted"
    /\ rpc = "prompt"
    /\ returned = Null
    /\ history[Len(history)].role = "tool"
    /\ Cardinality(BatchesOfLoop(history)) = MaxToolRounds

(***************************************************************************)
(* Properties of the prompt and the command layer.                         *)
(***************************************************************************)
\* C32 (as claimed): exit ends the session.  Once the line last read is the
\* exit command, run has left its interactive loop: it is not at the prompt
\* and no tool loop or request is under way.
C32_Claimed == lastInput = Str(<<"/", "exit">>) => rpc = "exited"

\* a line that is blank or starts with the command prefix
Bypassing(input) ==
    \/ \A i \in DOMAIN input : input[i] = " "
    \/ (input # <<>> /\ input[1] = "/")

\* a step of run that appends no turn and leaves the tool loop's state alone
NoTurnNoLoop ==
    /\ Len(history') <= Len(history)
    /\ \A i \in DOMAIN history' : history'[i] = history[i]
    /\ UNCHANGED <<requestMessages, round, loopMsg, requests, loopExit,
                   returned, nInputs>>

\* a step of run that appends the line as one user turn and starts one tool
\* loop
OneTurnOneLoop ==
    /\ history' = Append(history, [role |-> "user", content |-> lastInput'])
    /\ rpc' = "loop"
    /\ round' = 0
    /\ requests' = 0
    /\ loopExit' = "running"

SaveLine(input) ==
    \E k \in 2..Len(input) :
        /\ \A i \in 2..(k - 1) : input[i] = " "
        /\ input[k] = "save"
        /\ (k = Len(input) \/ input[k + 1] = " ")

C38_Claimed ==
    [][(cmdLast'.t = "register" /\ cmdLast'.threw)
         => (lookup' = lookup /\ commandsInOrder' = commandsInOrder)]_vars

(***************************************************************************)
(* Properties of the notebook store.                                       *)
(***************************************************************************)
\* the keys of the stored notes
StoredKeys(map) == {e.key : e \in map}

\* the keys of a list of notes, in order
KeysOf(notes) == [i \in DOMAIN notes |-> notes[i].key]

\* a sequence without the elements equal to x
Without(seq, x) == SelectSeq(seq, LAMBDA y : y # x)

\* the key a tool call names: the trimmed string, empty for anything else
NamedKey(args) ==
    IF args.key.t = "str" THEN Without(args.key.v, " ") ELSE <<>>

StoreUnchanged == notesByKey' = notesByKey /\ insertionOrder' = insertionOrder

\* the insertion-order list holds exactly the keys of the stored notes, each
\* once, and every key has one note, filed under its own key
StoreConsistent ==
    /\ {insertionOrder[i] : i \in DOMAIN insertionOrder} = StoredKeys(notesByKey)
    /\ \A i, j \in DOMAIN insertionOrder :
           insertionOrder[i] = insertionOrder[j] => i = j
    /\ \A e, f \in notesByKey : e.key = f.key => e = f
    /\ \A e \in notesByKey : e.note.key = e.key
    /\ KeysOf(toArray(notesByKey, insertionOrder)) = insertionOrder

\* what one call of a method does to the store
MethodStep ==
    LET call == nbLast'
        before == toArray(notesByKey, insertionOrder)
        after == toArray(notesByKey', insertionOrder')
    IN CASE call.op = "add" ->
              /\ call.threw <=> call.arg.key \in StoredKeys(notesByKey)
              /\ call.threw => StoreUnchanged
              /\ ~call.threw => after = Append(before, call.arg)
         [] call.op = "update" ->
              /\ call.threw <=> call.arg.key \notin StoredKeys(notesByKey)
              /\ call.threw => StoreUnchanged
              /\ ~call.threw =>
                    /\ KeysOf(after) = KeysOf(before)
                    /\ \A i \in DOMAIN before :
                          before[i].key # call.arg.key => after[i] = before[i]
         [] call.op = "delete" ->
              /\ call.threw <=> call.arg \notin StoredKeys(notesByKey)
              /\ call.threw => StoreUnchanged
              /\ ~call.threw =>
                    after = SelectSeq(before, LAMBDA n : n.key # call.arg)
         [] call.op = "clear" -> ~call.threw /\ after = <<>>
         [] OTHER -> TRUE

\* what one call of a tool does: the cases in which the method would fail
\* are reported as "Error: ..." text, and an error leaves the store alone
ToolStep ==
    LET call == nbLast'
        exists == NamedKey(call.arg) \in StoredKeys(notesByKey)
        failed == call.output[1] = "Error: "
        before == toArray(notesByKey, insertionOrder)
        after == toArray(notesByKey', insertionOrder')
    IN /\ ~call.threw
       /\ failed => StoreUnchanged
       /\ CASE call.op = "add_note" ->
                 /\ exists => failed
                 /\ ~failed => /\ Len(after) = Len(before) + 1
                               /\ SubSeq(after, 1, Len(before)) = before
                               /\ after[Len(after)].key = NamedKey(call.arg)
            [] call.op = "update_note" ->
                 /\ ~exists => failed
                 /\ ~failed => KeysOf(after) = KeysOf(before)
            [] call.op = "delete_note" ->
                 /\ ~exists => failed
                 /\ ~failed =>
                       after = SelectSeq(before,
                                         LAMBDA n : n.key # NamedKey(call.arg))
            [] OTHER -> TRUE

\* C37: notebook store consistency.  After any sequence of add, update,
\* delete and clear the insertion-order list holds exactly the keys of the
\* stored notes, each once; add puts the note last in toArray, update keeps
\* every note's position, delete removes the note only; add of an existing
\* key and update or delete of a missing key fail and leave the store
\* unchanged; the three tools report those cases as "Error: ..." text and
\* an error leaves the store unchanged.
C37_StoreConsistency ==
    /\ []StoreConsistent
    /\ [][nbLast'.t = "call" =>
            IF nbLast'.op \in {"add", "update", "delete", "clear"}
            THEN MethodStep ELSE ToolStep]_vars

\* b was added after a, a has been updated since and is still listed first,
\* and the last call, add_note of the key a, was refused
C37_Witness ==
    /\ insertionOrder = <<<<"a">>, <<"b">>>>
    /\ toArray(notesByKey, insertionOrder)[1].title = <<"u">>
    /\ nbLast.t = "call"
    /\ nbLast.op = "add_note"
    /\ nbLast.output[1] = "Error: "
    /\ NamedKey(nbLast.arg) = <<"a">>

(***************************************************************************)
(* Properties of the configuration store and service.                      *)
(***************************************************************************)
\* every profile has an id, the ids are pairwise distinct, and the active
\* id is absent or the id of one of the profiles
ConfigSound(config) ==
    /\ \A i \in DOMAIN config.profiles :
           config.profiles[i].id.t = "str" /\ config.profiles[i].id.v # <<>>
    /\ \A i, j \in DOMAIN config.profiles :
           config.profiles[i].id = config.profiles[j].id => i = j
    /\ \/ config.activeProfileId = [t |-> "null"]
       \/ \E i \in DOMAIN config.profiles :
              config.profiles[i].id = config.activeProfileId

\* C39: stored configuration invariant.  The configuration the service
\* holds (what load returned) and the file a successful update has just
\* written have pairwise distinct profile ids and an active id that is
\* absent or names one of the profiles; the snapshot is built from the
\* stored configuration and its activeProfile is undefined or one of the
\* stored profiles.
C39_StoredInvariant ==
    /\ ConfigSound(stored)
    /\ (svcLast.t = "call" /\ svcLast.op = "update" /\ ~svcLast.threw)
          => (file.t = "json" /\ ConfigSound(file.config)
              /\ file.config = stored)
    /\ snapshot.stored = stored
    /\ \/ snapshot.activeProfile = [t |-> "null"]
       \/ /\ \E i \in DOMAIN stored.profiles :
                 stored.profiles[i] = snapshot.activeProfile
          /\ snapshot.activeProfile.id = stored.activeProfileId

\* the file names an active profile that does not exist and holds a profile
\* without id; reload has drawn an id for the profile and dropped the
\* active id
C39_Witness ==
    /\ svcLast.t = "call"
    /\ svcLast.op = "reload"
    /\ ~svcLast.threw
    /\ file.t = "json"
    /\ file.config.activeProfileId = Str(<<"zz">>)
    /\ Len(stored.profiles) = 1
    /\ stored.profiles[1].id = Str(<<"u", "1">>)
    /\ stored.activeProfileId = [t |-> "null"]

\* how often a listener was called by the last emit
TimesCalled(notified, listener) ==
    Cardinality({i \in DOMAIN notified : notified[i].listener = listener})

Subscribed(listener) == \E i \in DOMAIN listeners : listeners[i] = listener

\* the snapshot carries every field a runtime needs
Usable(snap) ==
    \A f \in {"apiKey", "baseUrl", "model"} :
        snap.effective[f].t = "str" /\ snap.effective[f].v # <<>>

\* the runtime is the one made of the snapshot
RuntimeOf(runtime, snap) ==
    /\ runtime.client.apiKey = snap.effective.apiKey
    /\ runtime.client.baseURL = snap.effective.baseUrl
    /\ runtime.primaryModel = snap.effective.model
    /\ runtime.fastModel = snap.effective.fastModel

\* C31: live client refresh.  A successful update or reload calls every
\* subscribed listener exactly once with the new snapshot and calls no
\* listener that is not subscribed (any more); the listener of main
\* installs the runtime made of the new snapshot (a snapshot no runtime can
\* be made of leaves the runtime in place), and every request issued
\* afterwards uses the client and the model of the installed runtime; a
\* failing update or reload calls no listener and leaves the snapshot and
\* the runtime unchanged.
C31_LiveRefresh ==
    [][svcLast'.t = "call" =>
         IF svcLast'.op \in {"update", "reload"}
         THEN IF svcLast'.threw
              THEN /\ svcLast'.notified = <<>>
                   /\ snapshot' = snapshot
                   /\ stored' = stored
                   /\ llm' = llm
              ELSE /\ \A l \in {"main", "other"} :
                         TimesCalled(svcLast'.notified, l)
                             = IF Subscribed(l) THEN 1 ELSE 0
                   /\ \A i \in DOMAIN svcLast'.notified :
                         svcLast'.notified[i].snapshot = snapshot'
                   /\ IF Subscribed("main") /\ Usable(snapshot')
                      THEN RuntimeOf(llm', snapshot')
                      ELSE llm' = llm
         ELSE IF svcLast'.op = "request"
         THEN /\ svcLast'.client = llm.client
              /\ svcLast'.model = llm.primaryModel
              /\ llm' = llm
         ELSE svcLast'.op = "start" \/ (llm' = llm /\ snapshot' = snapshot)]_vars

\* the runner was started on the environment; the config command has added
\* a profile, which became the active one, and a request has been issued
\* since with the profile's model
C31_Witness ==
    /\ env.TOY_MODEL = Str(<<"e">>)
    /\ svcLast.t = "call"
    /\ svcLast.op = "request"
    /\ svcLast.model = Str(<<"m">>)
    /\ Subscribed("main")
    /\ Subscribed("other")
    /\ Len(stored.profiles) = 1
    /\ stored.profiles[1].id = Str(<<"u", "1">>)

====
